---- MODULE Spec2Model ----
(***************************************************************************)
(* Model of the dailydose-be order pipeline: cart, checkout, discount      *)
(* usage, order status updates and the shipping / discount arithmetic.     *)
(*                                                                         *)
(* Every `await` of a handler is a point where another request may run,    *)
(* so a handler is a sequence of steps over the shared database rows.      *)
(* Writes made through the transaction client `tx` are buffered in the     *)
(* request and become visible together at commit; a failed transaction     *)
(* drops the buffer.                                                       *)
(*                                                                         *)
(* Money is in whole rupees.  Product prices are multiples of 100, so the  *)
(* percentage (subtotal * value) / 100 is exact in integers.               *)
(***************************************************************************)
EXTENDS Integers, Sequences, FiniteSets, TLC

\* ------------------------------------------------------------ bounds
MaxRequests == 4    \* requests (cart, checkout, order status) served in one run
InitStock == 2      \* stockQuantity of every product at the start
MaxQty == 2         \* largest quantity a cart request asks for
MaxTime == 3        \* the clock runs over 0..MaxTime

UserIds == {1, 2}
ProductIds == {1, 2}
AdminReqs == {1}
RvSlots == {1, 2}
Price == <<500, 1500>>

\* ------------------------------------------------------------ nullable values
\* A nullable column or optional field is <<>> (null / undefined) or <<v>>.
NULL == <<>>
Some(v) == <<v>>
IsNull(x) == x = <<>>
Val(x) == x[1]
\* JavaScript truthiness of a nullable number: null, undefined and 0 are falsy.
Truthy(x) == x # <<>> /\ x[1] # 0

\* ------------------------------------------------------------ strings
\* A string is a sequence of one-character strings.
UpperChars == <<"A","B","C","D","E","F","G","H","I","J","K","L","M",
                "N","O","P","Q","R","S","T","U","V","W","X","Y","Z">>
LowerChars == <<"a","b","c","d","e","f","g","h","i","j","k","l","m",
                "n","o","p","q","r","s","t","u","v","w","x","y","z">>

LowerChar(c) ==
  IF \E i \in 1..26 : UpperChars[i] = c
  THEN LowerChars[CHOOSE i \in 1..26 : UpperChars[i] = c]
  ELSE c

UpperChar(c) ==
  IF \E i \in 1..26 : LowerChars[i] = c
  THEN UpperChars[CHOOSE i \in 1..26 : LowerChars[i] = c]
  ELSE c

toLowerCase(s) == [i \in 1..Len(s) |-> LowerChar(s[i])]
toUpperCase(s) == [i \in 1..Len(s) |-> UpperChar(s[i])]

IsSpace(c) == c \in {" ", "\t", "\n"}

RECURSIVE trimStart(_)
trimStart(s) ==
  IF s # <<>> /\ IsSpace(Head(s)) THEN trimStart(Tail(s)) ELSE s

RECURSIVE trimEnd(_)
trimEnd(s) ==
  IF s # <<>> /\ IsSpace(s[Len(s)]) THEN trimEnd(SubSeq(s, 1, Len(s) - 1)) ELSE s

trim(s) == trimEnd(trimStart(s))

\* String.prototype.includes: t occurs in s as a contiguous run ("" always does).
includes(s, t) ==
  \E i \in 0..(Len(s) - Len(t)) : SubSeq(s, i + 1, i + Len(t)) = t

\* ------------------------------------------------------------ shipping
KATHMANDU_VALLEY_CITIES ==
  << <<"k","a","t","h","m","a","n","d","u">>,
     <<"l","a","l","i","t","p","u","r">>,
     <<"b","h","a","k","t","a","p","u","r">>,
     <<"k","i","r","t","i","p","u","r">>,
     <<"m","a","d","h","y","a","p","u","r"," ","t","h","i","m","i">>,
     <<"t","h","i","m","i">> >>

INSIDE_VALLEY == 100
OUTSIDE_VALLEY == 200
FREE_SHIPPING_THRESHOLD == 2000

isInsideValley(city) ==
  LET normalizedCity == trim(toLowerCase(city))
  IN  \E k \in 1..Len(KATHMANDU_VALLEY_CITIES) :
        \/ includes(normalizedCity, KATHMANDU_VALLEY_CITIES[k])
        \/ includes(KATHMANDU_VALLEY_CITIES[k], normalizedCity)

calculateShippingCost(city, subtotal) ==
  IF subtotal >= FREE_SHIPPING_THRESHOLD THEN 0
  ELSE IF isInsideValley(city) THEN INSIDE_VALLEY ELSE OUTSIDE_VALLEY

\* The list checkout declares inline (it does not call calculateShippingCost).
CheckoutValleyCities ==
  << <<"k","a","t","h","m","a","n","d","u">>,
     <<"l","a","l","i","t","p","u","r">>,
     <<"b","h","a","k","t","a","p","u","r">>,
     <<"k","i","r","t","i","p","u","r">>,
     <<"m","a","d","h","y","a","p","u","r"," ","t","h","i","m","i">>,
     <<"t","h","i","m","i">> >>

CheckoutShippingNoReverse(cityIn, subtotal) ==
  IF subtotal >= FREE_SHIPPING_THRESHOLD THEN 0
  ELSE LET city == trim(toLowerCase(cityIn))
       IN  IF \E k \in 1..Len(CheckoutValleyCities) :
                 includes(city, CheckoutValleyCities[k])
           THEN INSIDE_VALLEY ELSE OUTSIDE_VALLEY

CheckoutShipping(cityIn, subtotal) ==
  IF subtotal >= FREE_SHIPPING_THRESHOLD THEN 0
  ELSE LET city == trim(toLowerCase(cityIn))
           inside == \E k \in 1..Len(CheckoutValleyCities) :
                       \/ includes(city, CheckoutValleyCities[k])
                       \/ includes(CheckoutValleyCities[k], city)
       IN  IF inside THEN INSIDE_VALLEY ELSE OUTSIDE_VALLEY

\* ------------------------------------------------------------ discount arithmetic
\* isValid of OrderController.checkout, for the record read and the time `t`.
CheckoutDiscountValid(d, t, subtotal) ==
  /\ d.isActive
  /\ t >= d.startDate
  /\ t <= d.endDate
  /\ (~Truthy(d.usageLimit) \/ d.usedCount < Val(d.usageLimit))
  /\ (~Truthy(d.minPurchaseAmount) \/ subtotal >= Val(d.minPurchaseAmount))

\* The amount checkout takes off, given a record that passed isValid.
CheckoutDiscountAmount(d, subtotal) ==
  LET base == IF d.type = "percentage"
              THEN (subtotal * d.value) \div 100
              ELSE d.value
      capped == IF Truthy(d.maxDiscountAmount) /\ base > Val(d.maxDiscountAmount)
                THEN Val(d.maxDiscountAmount)
                ELSE base
  IN  IF capped > subtotal THEN subtotal ELSE capped

\* ------------------------------------------------------------ payment constants
PAYMENT_METHODS == {"cod", "esewa", "khalti", "bank_transfer"}
ONLINE_PAYMENT_METHODS == {"esewa", "khalti", "bank_transfer"}
\* A variant that asks no payment method for a transaction number.
requiresTransactionNumberNever(paymentMethod) == FALSE

requiresTransactionNumber(paymentMethod) == paymentMethod \in ONLINE_PAYMENT_METHODS

\* ------------------------------------------------------------ state
VARIABLES
  stock,       \* Product.stockQuantity, by product id
  cart,        \* CartItem.quantity by (userId, productId); NULL = no row
  discounts,   \* Discount rows, id = index
  orders,      \* Order rows, id = index
  orderItems,  \* OrderItem rows
  now,         \* the clock read by `new Date()`
  req,         \* the checkout request in flight of each user
  adm,         \* the updateOrderStatus requests in flight
  nReq,        \* requests received so far (bounds the run)
  hist,        \* history: the last checkout and what followed it
  calc,        \* result of the last pure computation (arithmetic specifications)
  users,       \* User rows (isEmailVerified, emailVerificationToken), by user id
  wishlist,    \* WishlistItem rows: the set of <<userId, productId>>
  reviews,     \* Review rows, id = index; a deleted row leaves a tombstone
  helpful,     \* ReviewHelpful rows (reviewId, userId), in insertion order
  rv,          \* the review and password requests in flight, by connection
  resp,        \* the answer the last step gave, NoResp when it gave none
  arrival,     \* the route and Authorization header of the request that
               \* arrived in the last step, NoArrival when none did
  categories,  \* Category rows, id = index
  images,      \* ProductImage rows, id = index
  usedTokens,  \* history: the reset tokens that have reset a password
  nProducts    \* the number of products created since the initial state

\* The tables and requests that the order, cart and discount handlers never touch.
ext == <<users, wishlist, reviews, helpful, rv>>

\* The catalogue tables and the history that the handlers above never touch.
more == <<categories, images, usedTokens, nProducts>>

vars == <<stock, cart, discounts, orders, orderItems, now, req, adm, nReq, hist,
          calc, users, wishlist, reviews, helpful, rv, resp, arrival,
          categories, images, usedTokens, nProducts>>

\* AuthService.hashPassword: the hash stands for the password it was made of.
hashPassword(password) == <<"hash", password>>
\* The password every user registered with.
InitialHash == hashPassword(<<"w", "e", "l", "c", "o", "m", "e">>)

Idle == [pc |-> "idle"]
NoHist == [phase |-> "none"]
NoCalc == [op |-> "none"]
NoResp == [op |-> "none"]
NoArrival == [route |-> "none"]

\* The step runs a handler without a request arriving through a route: a
\* continuation after an await, or a request taken as already admitted.
Direct == arrival' = NoArrival

\* ------------------------------------------------------------ helpers
RECURSIVE CartRowsFrom(_, _)
\* prisma.cartItem.findMany({where: {userId}, include: {product}}): the rows of
\* the user's cart, each with the product columns as they are at the read.
CartRowsFrom(u, p) ==
  IF p > Len(Price) THEN <<>>
  ELSE (IF ~IsNull(cart[u][p])
        THEN << [productId |-> p, quantity |-> Val(cart[u][p]), price |-> Price[p],
                 stockQuantity |-> stock[p], isActive |-> TRUE] >>
        ELSE <<>>) \o CartRowsFrom(u, p + 1)

CartRows(u) == CartRowsFrom(u, 1)

LineTotal(item) == item.price * item.quantity

RECURSIVE CheckoutSubtotalNoQty(_)
CheckoutSubtotalNoQty(cartItems) ==
  IF cartItems = <<>> THEN 0
  ELSE Head(cartItems).price + CheckoutSubtotalNoQty(Tail(cartItems))

RECURSIVE SumLineTotals(_)
SumLineTotals(cartItems) ==
  IF cartItems = <<>> THEN 0
  ELSE LineTotal(Head(cartItems)) + SumLineTotals(Tail(cartItems))

\* let subtotal = 0; cartItems.forEach(item => subtotal += price * quantity)
CheckoutSubtotal(cartItems) == SumLineTotals(cartItems)

\* prisma.discount.findUnique({where: {code}}): the row or null.
FindDiscountByCode(code) ==
  IF \E i \in 1..Len(discounts) : discounts[i].code = code
  THEN Some(discounts[CHOOSE i \in 1..Len(discounts) : discounts[i].code = code])
  ELSE NULL

\* generateOrderNumber: one more than the number of the most recently created
\* order (all orders of a run carry the same year prefix), or 1.
generateOrderNumber ==
  IF orders = <<>> THEN 1 ELSE orders[Len(orders)].orderNumber + 1

OrderNumberTaken(n) == \E i \in 1..Len(orders) : orders[i].orderNumber = n

\* ------------------------------------------------------------ database writes
\* The rows a statement can touch, as one value.
Db == [stock |-> stock, cart |-> cart, discounts |-> discounts,
       orders |-> orders, orderItems |-> orderItems]

\* One statement applied to the rows.  `oid` is the id of the order row the
\* enclosing checkout inserts (newOrder.id).
Exec(db, st, oid) ==
  CASE st.op = "createOrder" ->
         [db EXCEPT !.orders = Append(@, [st.order EXCEPT !.id = oid])]
    [] st.op = "createOrderItem" ->
         [db EXCEPT !.orderItems = Append(@, [st.item EXCEPT !.orderId = oid])]
    [] st.op = "decrementStock" ->
         [db EXCEPT !.stock[st.productId] = @ - st.quantity]
    [] st.op = "incrementStock" ->
         [db EXCEPT !.stock[st.productId] = @ + st.quantity]
    [] st.op = "clearCart" ->
         [db EXCEPT !.cart[st.userId] = [p \in ProductIds |-> NULL]]
    [] st.op = "incrementUsed" ->
         [db EXCEPT !.discounts[st.discountId].usedCount = @ + 1]
    [] st.op = "decrementUsed" ->
         [db EXCEPT !.discounts[st.discountId].usedCount = @ - 1]
    [] st.op = "setStatus" ->
         [db EXCEPT !.orders[st.orderId].status = st.status]

RECURSIVE ExecAll(_, _, _)
ExecAll(db, stmts, oid) ==
  IF stmts = <<>> THEN db
  ELSE ExecAll(Exec(db, Head(stmts), oid), Tail(stmts), oid)

OnClient(stmts, client) ==
  LET keep(st) == st.client = client IN SelectSeq(stmts, keep)

RECURSIVE ItemStatements(_, _)
\* for (const item of cartItems) { tx.orderItem.create; tx.product.update }
ItemStatements(cartItems, stockClient) ==
  IF cartItems = <<>> THEN <<>>
  ELSE LET item == Head(cartItems)
       IN  << [client |-> "tx", op |-> "createOrderItem",
               item |-> [orderId |-> 0, productId |-> item.productId,
                         price |-> item.price, quantity |-> item.quantity,
                         subtotal |-> item.price * item.quantity]],
              [client |-> stockClient, op |-> "decrementStock",
               productId |-> item.productId, quantity |-> item.quantity] >>
           \o ItemStatements(Tail(cartItems), stockClient)

\* The order row checkout inserts, from the request's local values.
NewOrder(u, r) ==
  [id |-> 0,
   orderNumber |-> r.orderNumber,
   userId |-> u,
   status |-> "pending",
   subtotal |-> r.subtotal,
   shippingCost |-> r.shippingCost,
   tax |-> 0,
   discount |-> r.discount,
   total |-> r.subtotal + r.shippingCost + 0 - r.discount,
   shippingCity |-> r.city,
   paymentMethod |-> r.paymentMethod,
   paymentStatus |-> "pending",
   transactionNumber |-> IF r.paymentMethod = "cod" THEN NULL ELSE r.transactionNumber,
   discountId |-> r.discountId,
   discountCode |-> r.discountCodeUsed]

DiscountStatements(r) ==
  IF Truthy(r.discountId)
  THEN << [client |-> "tx", op |-> "incrementUsed", discountId |-> Val(r.discountId)] >>
  ELSE <<>>

\* A variant that leaves the cart as it is.
CheckoutStatementsNoClear(u, r) ==
  << [client |-> "tx", op |-> "createOrder", order |-> NewOrder(u, r)] >>
  \o ItemStatements(r.cartItems, "tx")
  \o DiscountStatements(r)

\* A variant that decrements stock through the global client, outside the transaction.
CheckoutStatementsStockOutsideTx(u, r) ==
  << [client |-> "tx", op |-> "createOrder", order |-> NewOrder(u, r)] >>
  \o ItemStatements(r.cartItems, "prisma")
  \o << [client |-> "tx", op |-> "clearCart", userId |-> u] >>
  \o DiscountStatements(r)

\* The statements of the checkout transaction, in order, each with the client
\* it is issued on.
CheckoutStatements(u, r) ==
  << [client |-> "tx", op |-> "createOrder", order |-> NewOrder(u, r)] >>
  \o ItemStatements(r.cartItems, "tx")
  \o << [client |-> "tx", op |-> "clearCart", userId |-> u] >>
  \o DiscountStatements(r)

RECURSIVE RestoreStatements(_)
RestoreStatements(items) ==
  IF items = <<>> THEN <<>>
  ELSE << [client |-> "tx", op |-> "incrementStock",
           productId |-> Head(items).productId, quantity |-> Head(items).quantity] >>
       \o RestoreStatements(Tail(items))

\* A variant that restores the stock but leaves the discount's usedCount alone.
CancelStatementsNoDiscount(orderId, status, existing) ==
  RestoreStatements(existing.items)
  \o << [client |-> "tx", op |-> "setStatus", orderId |-> orderId, status |-> status] >>

\* The statements of the cancellation transaction of updateOrderStatus.
CancelStatements(orderId, status, existing) ==
  RestoreStatements(existing.items)
  \o (IF Truthy(existing.discountId)
      THEN << [client |-> "tx", op |-> "decrementUsed",
               discountId |-> Val(existing.discountId)] >>
      ELSE <<>>)
  \o << [client |-> "tx", op |-> "setStatus", orderId |-> orderId, status |-> status] >>

SetDb(db) ==
  /\ stock' = db.stock
  /\ cart' = db.cart
  /\ discounts' = db.discounts
  /\ orders' = db.orders
  /\ orderItems' = db.orderItems

ItemsOf(orderId) ==
  LET mine(it) == it.orderId = orderId IN SelectSeq(orderItems, mine)

\* ------------------------------------------------------------ inputs
CityKathmandu == <<"K","a","t","h","m","a","n","d","u">>
CityPokhara == <<"P","o","k","h","a","r","a">>
CodeSave == <<"s","a","v","e">>

MainCities == {CityKathmandu}
MainPayments == {[method |-> "cod", txn |-> NULL],
                 [method |-> "esewa", txn |-> NULL]}
MainCodes == {NULL, Some(CodeSave)}
\* validStatuses of updateOrderStatus
ValidStatuses == {"pending", "confirmed", "processing", "shipped", "delivered",
                  "cancelled"}
OrderIdInputs == {1, 2}
MainStatuses == {"pending", "confirmed", "cancelled", "returned"}

\* The discount that exists at the start of the concurrency specification.
SeedDiscount ==
  [id |-> 1, code |-> toUpperCase(CodeSave), type |-> "percentage", value |-> 10,
   minPurchaseAmount |-> NULL, maxDiscountAmount |-> NULL,
   startDate |-> 0, endDate |-> MaxTime, isActive |-> TRUE,
   usageLimit |-> Some(1), usedCount |-> 0]

\* ------------------------------------------------------------ initial state
Init ==
  /\ stock = [p \in ProductIds |-> InitStock]
  /\ cart = [u \in UserIds |-> [p \in ProductIds |-> NULL]]
  /\ discounts = << SeedDiscount >>
  /\ orders = <<>>
  /\ orderItems = <<>>
  /\ now = 1
  /\ req = [u \in UserIds |-> Idle]
  /\ adm = [a \in AdminReqs |-> Idle]
  /\ nReq = 0
  /\ hist = NoHist
  /\ calc = NoCalc
  /\ users = [u \in UserIds |->
                [isEmailVerified |-> FALSE, emailVerificationToken |-> Some(u),
                 passwordHash |-> InitialHash, passwordResetToken |-> NULL,
                 passwordResetExpiry |-> NULL]]
  /\ wishlist = {}
  /\ reviews = <<>>
  /\ helpful = <<>>
  /\ rv = [s \in RvSlots |-> Idle]
  /\ resp = NoResp
  /\ arrival = NoArrival
  /\ categories = <<>>
  /\ images = <<>>
  /\ usedTokens = {}
  /\ nProducts = 0

\* ------------------------------------------------------------ cart
\* cart[u][p] is the quantity of the cart row of (userId u, productId p), the
\* pair being unique (userId_productId), or NULL when there is no such row.
\* The quantity after adding to the row found, or of the row to create.
NewCartQuantity(existing, quantity) ==
  IF IsNull(existing) THEN quantity ELSE Val(existing) + quantity

\* CartController.addToCart
AddToCart(u, productId, quantity) ==
  /\ nReq < MaxRequests
  /\ nReq' = nReq + 1
  /\ IF /\ quantity >= 1
        /\ productId \in ProductIds
        /\ stock[productId] >= quantity
        /\ stock[productId] >= NewCartQuantity(cart[u][productId], quantity)
     THEN /\ cart' = [cart EXCEPT ![u][productId] = Some(NewCartQuantity(@, quantity))]
          /\ resp' = [op |-> "addToCart", status |-> 201, quantity |-> quantity]
     ELSE /\ cart' = cart
          /\ resp' = [op |-> "addToCart",
                      status |-> IF quantity < 1 THEN 400
                                 ELSE IF productId \notin ProductIds THEN 404
                                 ELSE 400,
                      quantity |-> quantity]
  /\ hist' = NoHist
  /\ UNCHANGED <<stock, discounts, orders, orderItems, now, req, adm, calc, ext, more>>

\* ------------------------------------------------------------ checkout
\* if (discountCode) prisma.discount.findUnique({where: {code: toUpperCase}})
CheckoutDiscountLookup(code) ==
  IF IsNull(code) \/ Val(code) = <<>> THEN NULL
  ELSE FindDiscountByCode(toUpperCase(Val(code)))

\* The discount checkout settles on (amount, id, code) for the row it read.
CheckoutDiscount(found, t, subtotal) ==
  IF ~IsNull(found) /\ CheckoutDiscountValid(Val(found), t, subtotal)
  THEN [discount |-> CheckoutDiscountAmount(Val(found), subtotal),
        discountId |-> Some(Val(found).id),
        discountCodeUsed |-> Some(Val(found).code)]
  ELSE [discount |-> 0, discountId |-> NULL, discountCodeUsed |-> NULL]

\* Cart not empty, every product active and in sufficient stock (as read).
CheckoutCartOk(cartItems) ==
  /\ Len(cartItems) # 0
  /\ \A i \in 1..Len(cartItems) :
       /\ cartItems[i].isActive
       /\ ~(cartItems[i].stockQuantity < cartItems[i].quantity)

\* The columns of the cart rows that checkout still uses after its validation.
OrderLines(cartItems) ==
  [i \in 1..Len(cartItems) |->
     [productId |-> cartItems[i].productId, quantity |-> cartItems[i].quantity,
      price |-> cartItems[i].price]]

\* The validation of the request body: the BadRequestError it throws, by the
\* subject of its message, or "ok".
CheckoutValidation(city, pay) ==
  IF city = <<>> THEN "shippingInfo"
  ELSE IF pay.method \notin PAYMENT_METHODS THEN "paymentMethod"
  ELSE IF requiresTransactionNumber(pay.method)
          /\ (IsNull(pay.txn) \/ trim(Val(pay.txn)) = <<>>)
       THEN "transactionNumber"
  ELSE "ok"

\* Request validation, the cart read, and what follows it without an await:
\* the stock validation, the subtotal and the shipping cost.
CheckoutStart(u, city, pay, code) ==
  /\ req[u].pc = "idle"
  /\ nReq < MaxRequests
  /\ nReq' = nReq + 1
  /\ IF CheckoutValidation(city, pay) # "ok"
     THEN /\ req' = req
          /\ resp' = [op |-> "checkout", status |-> 400,
                      message |-> CheckoutValidation(city, pay)]
     ELSE LET cartItems == CartRows(u)
              subtotal == CheckoutSubtotal(cartItems)
          IN  IF ~CheckoutCartOk(cartItems)
              THEN /\ req' = req
                   /\ resp' = [op |-> "checkout", status |-> 400,
                               message |-> "cart"]
              ELSE /\ resp' = NoResp
                   /\ req' = [req EXCEPT ![u] =
                             [pc |-> "discount", city |-> city,
                              paymentMethod |-> pay.method,
                              transactionNumber |-> pay.txn,
                              discountCode |-> code,
                              cartItems |-> OrderLines(cartItems),
                              subtotal |-> subtotal,
                              shippingCost |-> CheckoutShipping(city, subtotal)]]
  /\ hist' = NoHist
  /\ UNCHANGED <<stock, cart, discounts, orders, orderItems, now, adm, calc, ext, more>>

\* The discount read (when a code was sent), `now`, and the discount computation.
CheckoutDiscountRead(u) ==
  /\ req[u].pc = "discount"
  /\ LET r == req[u]
         found == CheckoutDiscountLookup(r.discountCode)
         d == CheckoutDiscount(found, now, r.subtotal)
     IN  req' = [req EXCEPT ![u] =
                   [pc |-> "gen", city |-> r.city,
                    paymentMethod |-> r.paymentMethod,
                    transactionNumber |-> r.transactionNumber,
                    discountCode |-> r.discountCode,
                    cartItems |-> r.cartItems,
                    subtotal |-> r.subtotal,
                    shippingCost |-> r.shippingCost,
                    discountRecord |-> found,
                    nowRead |-> now,
                    discount |-> d.discount,
                    discountId |-> d.discountId,
                    discountCodeUsed |-> d.discountCodeUsed]]
  /\ hist' = NoHist
  /\ resp' = NoResp
  /\ UNCHANGED <<stock, cart, discounts, orders, orderItems, now, adm, nReq, calc, ext, more>>

\* await generateOrderNumber(), then the body of prisma.$transaction runs:
\* statements on `tx` are held back for the commit, statements on the global
\* client take effect at once.
CheckoutTx(u) ==
  /\ req[u].pc = "gen"
  /\ LET r == req[u]
         withNumber ==
           [pc |-> "commit", city |-> r.city,
            paymentMethod |-> r.paymentMethod,
            transactionNumber |-> r.transactionNumber,
            discountCode |-> r.discountCode,
            cartItems |-> r.cartItems,
            subtotal |-> r.subtotal,
            shippingCost |-> r.shippingCost,
            discountRecord |-> r.discountRecord,
            nowRead |-> r.nowRead,
            discount |-> r.discount,
            discountId |-> r.discountId,
            discountCodeUsed |-> r.discountCodeUsed,
            orderNumber |-> generateOrderNumber]
         stmts == CheckoutStatements(u, withNumber)
     IN  /\ SetDb(ExecAll(Db, OnClient(stmts, "prisma"), Len(orders) + 1))
         /\ req' = [req EXCEPT ![u] =
                      [pc |-> "commit", city |-> r.city,
                       paymentMethod |-> r.paymentMethod,
                       transactionNumber |-> r.transactionNumber,
                       discountCode |-> r.discountCode,
                       cartItems |-> r.cartItems,
                       subtotal |-> r.subtotal,
                       shippingCost |-> r.shippingCost,
                       discountRecord |-> r.discountRecord,
                       nowRead |-> r.nowRead,
                       discount |-> r.discount,
                       discountId |-> r.discountId,
                       discountCodeUsed |-> r.discountCodeUsed,
                       orderNumber |-> generateOrderNumber,
                       pending |-> OnClient(stmts, "tx")]]
  /\ hist' = NoHist
  /\ resp' = NoResp
  /\ UNCHANGED <<now, adm, nReq, calc, ext, more>>

\* The transaction commits: every held-back statement takes effect.  The insert
\* fails on the unique orderNumber when another order took the number.
CheckoutCommit(u) ==
  /\ req[u].pc = "commit"
  /\ IF OrderNumberTaken(req[u].orderNumber)
     THEN /\ UNCHANGED <<stock, cart, discounts, orders, orderItems>>
          /\ hist' = NoHist
          /\ resp' = [op |-> "checkout", status |-> 500]
     ELSE /\ SetDb(ExecAll(Db, req[u].pending, Len(orders) + 1))
          /\ resp' = [op |-> "checkout", status |-> 201]
          /\ hist' = [phase |-> "checkedOut", orderId |-> Len(orders) + 1,
                      stock |-> stock,
                      cartItems |-> req[u].cartItems,
                      request |-> req[u],
                      used |-> [i \in 1..Len(discounts) |-> discounts[i].usedCount]]
  /\ req' = [req EXCEPT ![u] = Idle]
  /\ UNCHANGED <<now, adm, nReq, calc, ext, more>>

\* A statement of the transaction throws (lock timeout, deadlock, lost
\* connection): the transaction rolls back and the handler answers the error.
CheckoutAbort(u) ==
  /\ req[u].pc = "commit"
  /\ req' = [req EXCEPT ![u] = Idle]
  /\ hist' = NoHist
  /\ resp' = [op |-> "checkout", status |-> 500]
  /\ UNCHANGED <<stock, cart, discounts, orders, orderItems, now, adm, nReq, calc, ext, more>>

\* A check that never finds the order cancelled.
AlreadyCancelledNever(existingStatus, status) == FALSE

\* `existingOrder.status === "cancelled" && status === "cancelled"` throws
\* BadRequestError("Order is already cancelled").
AlreadyCancelled(existingStatus, status) ==
  existingStatus = "cancelled" /\ status = "cancelled"

\* ------------------------------------------------------------ order status
\* updateOrderStatus up to and including the read of the order with its items.
UpdateOrderStatusRead(a, orderId, status) ==
  /\ adm[a].pc = "idle"
  /\ nReq < MaxRequests
  /\ nReq' = nReq + 1
  /\ IF status \notin ValidStatuses
     THEN /\ adm' = adm
          /\ hist' = NoHist
          /\ resp' = [op |-> "updateOrderStatus", status |-> 400,
                      orderId |-> orderId, to |-> status]
     ELSE IF orderId \notin 1..Len(orders)
     THEN /\ adm' = adm
          /\ hist' = NoHist
          /\ resp' = [op |-> "updateOrderStatus", status |-> 404,
                      orderId |-> orderId, to |-> status]
     ELSE IF AlreadyCancelled(orders[orderId].status, status)
     THEN /\ adm' = adm
          /\ hist' = NoHist
          /\ resp' = [op |-> "updateOrderStatus", status |-> 400,
                      orderId |-> orderId, to |-> status]
     ELSE /\ resp' = NoResp
          /\ adm' = [adm EXCEPT ![a] =
                       [pc |-> "write", orderId |-> orderId, status |-> status,
                        existing |-> [status |-> orders[orderId].status,
                                      discountId |-> orders[orderId].discountId,
                                      items |-> ItemsOf(orderId)]]]
          /\ hist' = IF /\ hist.phase = "checkedOut"
                        /\ hist.orderId = orderId
                        /\ status = "cancelled"
                     THEN [hist EXCEPT !.phase = "cancelling"]
                     ELSE NoHist
  /\ UNCHANGED <<stock, cart, discounts, orders, orderItems, now, req, calc, ext, more>>

\* The write of updateOrderStatus: the cancellation transaction, or the plain
\* status update.
UpdateOrderStatusWrite(a) ==
  /\ adm[a].pc = "write"
  /\ LET r == adm[a]
     IN  IF r.status = "cancelled" /\ r.existing.status # "cancelled"
         THEN /\ SetDb(ExecAll(Db, CancelStatements(r.orderId, r.status, r.existing),
                               r.orderId))
              /\ hist' = IF hist.phase = "cancelling" /\ hist.orderId = r.orderId
                         THEN [hist EXCEPT !.phase = "cancelled"]
                         ELSE NoHist
         ELSE /\ orders' = [orders EXCEPT ![r.orderId].status = r.status]
              /\ hist' = NoHist
              /\ UNCHANGED <<stock, cart, discounts, orderItems>>
  /\ adm' = [adm EXCEPT ![a] = Idle]
  /\ resp' = [op |-> "updateOrderStatus", status |-> 200]
  /\ UNCHANGED <<now, req, nReq, calc, ext, more>>

\* validStatuses of updatePaymentStatus
ValidPaymentStatuses == {"pending", "paid", "failed"}

\* OrderController.updatePaymentStatus.  The update writes paymentStatus whatever
\* the row read before it held, and orders are never deleted, so the read and
\* the write are one step.
UpdatePaymentStatus(orderId, paymentStatus) ==
  /\ nReq < MaxRequests
  /\ nReq' = nReq + 1
  /\ IF paymentStatus \notin ValidPaymentStatuses
     THEN /\ orders' = orders
          /\ resp' = [op |-> "updatePaymentStatus", status |-> 400]
     ELSE IF orderId \notin 1..Len(orders)
     THEN /\ orders' = orders
          /\ resp' = [op |-> "updatePaymentStatus", status |-> 404]
     ELSE /\ orders' = [orders EXCEPT ![orderId].paymentStatus = paymentStatus]
          /\ resp' = [op |-> "updatePaymentStatus", status |-> 200]
  /\ hist' = NoHist
  /\ UNCHANGED <<stock, cart, discounts, orderItems, now, req, adm, calc, ext, more>>

\* ------------------------------------------------------------ authentication
\* An Authorization header: absent, not a Bearer header, a Bearer token that
\* jwt.verify refuses, or a Bearer token signed for a user id and a role.
NoHeader == [kind |-> "none", valid |-> FALSE, userId |-> 0, role |-> "none"]
BasicHeader == [kind |-> "basic", valid |-> FALSE, userId |-> 0, role |-> "none"]
BadBearer == [kind |-> "bearer", valid |-> FALSE, userId |-> 0, role |-> "none"]
Bearer(userId, role) ==
  [kind |-> "bearer", valid |-> TRUE, userId |-> userId, role |-> role]

\* authenticate: the status it ends with and the jwtPayload it attaches.
authenticate(header) ==
  IF header.kind # "bearer"
  THEN [status |-> 401, jwtPayload |-> NULL]
  ELSE IF ~header.valid
  THEN [status |-> 401, jwtPayload |-> NULL]
  ELSE [status |-> 200,
        jwtPayload |-> Some([userId |-> header.userId, role |-> header.role])]

\* A variant that lets every authenticated user through.
isAdminAnyRole(jwtPayload) ==
  IF IsNull(jwtPayload) THEN 401 ELSE 200

\* isAdmin: 200 stands for next().
isAdmin(jwtPayload) ==
  IF IsNull(jwtPayload) THEN 401
  ELSE IF Val(jwtPayload).role # "admin" THEN 403
  ELSE 200

\* isEmailVerified passes every authenticated request through.
isEmailVerified(jwtPayload) ==
  IF IsNull(jwtPayload) THEN 401 ELSE 200

\* The middleware in front of each handler, as the routers list it.
Middleware ==
  [route \in {"POST /cart", "POST /orders/checkout"} |-> <<"authenticate">>]
  @@ [route \in {"PATCH /orders/admin/:id/status", "PATCH /orders/admin/:id/payment",
                 "POST /discounts", "PUT /discounts/:id"} |->
        <<"authenticate", "isAdmin">>]

\* The status the middleware of a route ends with: 200 when the handler runs.
RunMiddleware(route, header) ==
  LET a == authenticate(header)
      chain == Middleware[route]
  IN  IF a.status # 200 THEN a.status
      ELSE IF \E k \in 1..Len(chain) : chain[k] = "isAdmin"
      THEN isAdmin(a.jwtPayload)
      ELSE 200

\* A request arrives on a route: a middleware that refuses it passes its error
\* to the error handler and the handler never runs; otherwise the handler runs.
Through(route, header, Handler) ==
  /\ arrival' = [route |-> route, header |-> header]
  /\ IF RunMiddleware(route, header) # 200
     THEN /\ resp' = [op |-> "middleware", status |-> RunMiddleware(route, header)]
          /\ UNCHANGED <<stock, cart, discounts, orders, orderItems, now, req, adm,
                         nReq, hist, calc, ext, more>>
     ELSE Handler

\* AuthController.verifyEmail with the token mailed to user `u`, or another one.
VerifyEmail(token) ==
  /\ nReq < MaxRequests
  /\ nReq' = nReq + 1
  /\ IF IsNull(token)
     THEN /\ users' = users
          /\ resp' = [op |-> "verifyEmail", status |-> 400]
     ELSE IF ~\E u \in UserIds : users[u].emailVerificationToken = token
     THEN /\ users' = users
          /\ resp' = [op |-> "verifyEmail", status |-> 400]
     ELSE LET u == CHOOSE u \in UserIds : users[u].emailVerificationToken = token
          IN  IF users[u].isEmailVerified
              THEN /\ users' = users
                   /\ resp' = [op |-> "verifyEmail", status |-> 400]
              ELSE /\ users' = [users EXCEPT ![u].isEmailVerified = TRUE,
                                              ![u].emailVerificationToken = NULL]
                   /\ resp' = [op |-> "verifyEmail", status |-> 200]
  /\ hist' = NoHist
  /\ arrival' = NoArrival
  /\ UNCHANGED <<stock, cart, discounts, orders, orderItems, now, req, adm, calc,
                 wishlist, reviews, helpful, rv, more>>

\* ------------------------------------------------------------ discounts (admin)
\* DiscountController.create.  isActive and usedCount are not in the data of
\* the create call: the row gets the column defaults (active, 0 uses).
DiscountCreate(inp) ==
  /\ nReq < MaxRequests
  /\ nReq' = nReq + 1
  /\ IF \/ inp.code = <<>>
        \/ inp.value = 0
        \/ inp.type \notin {"percentage", "fixed"}
        \/ inp.value <= 0
        \/ (inp.type = "percentage" /\ inp.value > 100)
     THEN /\ discounts' = discounts
          /\ resp' = [op |-> "discountCreate", status |-> 400]
     ELSE IF ~IsNull(FindDiscountByCode(toUpperCase(inp.code)))
     THEN /\ discounts' = discounts
          /\ resp' = [op |-> "discountCreate", status |-> 409]
     ELSE IF inp.endDate <= inp.startDate
     THEN /\ discounts' = discounts
          /\ resp' = [op |-> "discountCreate", status |-> 400]
     ELSE /\ resp' = [op |-> "discountCreate", status |-> 201]
          /\ discounts' = Append(discounts,
            [id |-> Len(discounts) + 1,
             code |-> toUpperCase(inp.code),
             type |-> inp.type,
             value |-> inp.value,
             minPurchaseAmount |-> inp.minPurchaseAmount,
             maxDiscountAmount |-> inp.maxDiscountAmount,
             startDate |-> inp.startDate,
             endDate |-> inp.endDate,
             isActive |-> TRUE,
             usageLimit |-> inp.usageLimit,
             usedCount |-> 0])
  /\ hist' = NoHist
  /\ UNCHANGED <<stock, cart, orders, orderItems, now, req, adm, calc, ext, more>>

\* The row after prisma.discount.update with a body that sets one field.
PatchedDiscount(d, patch) ==
  CASE patch.field = "isActive" -> [d EXCEPT !.isActive = patch.value]
    [] patch.field = "value" -> [d EXCEPT !.value = patch.value]
    [] patch.field = "usageLimit" -> [d EXCEPT !.usageLimit = patch.value]
    [] patch.field = "startDate" -> [d EXCEPT !.startDate = patch.value]
    [] patch.field = "endDate" -> [d EXCEPT !.endDate = patch.value]

\* DiscountController.update: only the dates are validated.
DiscountUpdate(id, patch) ==
  /\ nReq < MaxRequests
  /\ nReq' = nReq + 1
  /\ IF id \notin 1..Len(discounts)
     THEN /\ discounts' = discounts
          /\ resp' = [op |-> "discountUpdate", status |-> 404]
     ELSE LET start == IF patch.field = "startDate" THEN patch.value
                       ELSE discounts[id].startDate
              end == IF patch.field = "endDate" THEN patch.value
                     ELSE discounts[id].endDate
          IN  IF patch.field \in {"startDate", "endDate"} /\ end <= start
              THEN /\ discounts' = discounts
                   /\ resp' = [op |-> "discountUpdate", status |-> 400]
              ELSE /\ resp' = [op |-> "discountUpdate", status |-> 200]
                   /\ discounts' =
                        [discounts EXCEPT ![id] = PatchedDiscount(@, patch)]
  /\ hist' = NoHist
  /\ UNCHANGED <<stock, cart, orders, orderItems, now, req, adm, calc, ext, more>>

\* Time passes.
Tick ==
  /\ now < MaxTime
  /\ now' = now + 1
  /\ hist' = NoHist
  /\ resp' = NoResp
  /\ UNCHANGED <<stock, cart, discounts, orders, orderItems, req, adm, nReq, calc, ext, more>>

\* ------------------------------------------------------------ ownership
\* `!row || row.userId !== jwtPayload.userId` throws NotFoundError: the handler
\* goes on only for a row that exists and belongs to the caller.
OwnedByAnyone(row, userId) == ~IsNull(row)

OwnedBy(row, userId) == ~IsNull(row) /\ Val(row).userId = userId

\* A cart item id names the row of one (userId, productId) pair: the table is
\* unique on the pair, so the pair stands for the row's id.
CartItemIds == UserIds \X ProductIds

\* prisma.cartItem.findUnique({where: {id}, include: {product}})
FindCartItem(id) ==
  IF ~IsNull(cart[id[1]][id[2]])
  THEN Some([userId |-> id[1], productId |-> id[2], quantity |-> Val(cart[id[1]][id[2]]),
             stockQuantity |-> stock[id[2]]])
  ELSE NULL

\* CartController.updateCartItem.  The quantity is validated before the row
\* is looked up.
UpdateCartItem(u, id, quantity) ==
  /\ nReq < MaxRequests
  /\ nReq' = nReq + 1
  /\ LET cartItem == FindCartItem(id)
         status == IF quantity < 1 THEN 400
                   ELSE IF ~OwnedBy(cartItem, u) THEN 404
                   ELSE IF Val(cartItem).stockQuantity < quantity THEN 400
                   ELSE 200
     IN  /\ cart' = IF status = 200 THEN [cart EXCEPT ![id[1]][id[2]] = Some(quantity)]
                    ELSE cart
         /\ resp' = [op |-> "updateCartItem", status |-> status, user |-> u, id |-> id,
                     quantity |-> quantity]
  /\ hist' = NoHist
  /\ UNCHANGED <<stock, discounts, orders, orderItems, now, req, adm, calc, ext, more>>

\* CartController.removeFromCart
RemoveFromCart(u, id) ==
  /\ nReq < MaxRequests
  /\ nReq' = nReq + 1
  /\ IF OwnedBy(FindCartItem(id), u)
     THEN /\ cart' = [cart EXCEPT ![id[1]][id[2]] = NULL]
          /\ resp' = [op |-> "removeFromCart", status |-> 200, user |-> u, id |-> id]
     ELSE /\ cart' = cart
          /\ resp' = [op |-> "removeFromCart", status |-> 404, user |-> u, id |-> id]
  /\ hist' = NoHist
  /\ UNCHANGED <<stock, discounts, orders, orderItems, now, req, adm, calc, ext, more>>

\* A wishlist item id names the row of one (userId, productId) pair, as for
\* the cart.
WishlistItemIds == UserIds \X ProductIds

\* prisma.wishlistItem.findUnique({where: {id}, include: {product}})
FindWishlistItem(id) ==
  IF id \in wishlist
  THEN Some([userId |-> id[1], productId |-> id[2], stockQuantity |-> stock[id[2]]])
  ELSE NULL

\* WishlistController.addToWishlist
AddToWishlist(u, productId) ==
  /\ nReq < MaxRequests
  /\ nReq' = nReq + 1
  /\ IF productId \notin ProductIds
     THEN /\ wishlist' = wishlist
          /\ resp' = [op |-> "addToWishlist", status |-> 404]
     ELSE IF <<u, productId>> \in wishlist
     THEN /\ wishlist' = wishlist
          /\ resp' = [op |-> "addToWishlist", status |-> 400]
     ELSE /\ wishlist' = wishlist \cup {<<u, productId>>}
          /\ resp' = [op |-> "addToWishlist", status |-> 201]
  /\ hist' = NoHist
  /\ UNCHANGED <<stock, cart, discounts, orders, orderItems, now, req, adm, calc,
                 users, reviews, helpful, rv, more>>

\* WishlistController.removeFromWishlist
RemoveFromWishlist(u, id) ==
  /\ nReq < MaxRequests
  /\ nReq' = nReq + 1
  /\ IF OwnedBy(FindWishlistItem(id), u)
     THEN /\ wishlist' = wishlist \ {id}
          /\ resp' = [op |-> "removeFromWishlist", status |-> 200, user |-> u, id |-> id]
     ELSE /\ wishlist' = wishlist
          /\ resp' = [op |-> "removeFromWishlist", status |-> 404, user |-> u, id |-> id]
  /\ hist' = NoHist
  /\ UNCHANGED <<stock, cart, discounts, orders, orderItems, now, req, adm, calc,
                 users, reviews, helpful, rv, more>>

\* WishlistController.moveToCart: the cart row of the caller gets the
\* quantity and the wishlist row is deleted, in one transaction.
MoveToCart(u, id, quantity) ==
  /\ nReq < MaxRequests
  /\ nReq' = nReq + 1
  /\ LET wishlistItem == FindWishlistItem(id)
         status == IF ~OwnedBy(wishlistItem, u) THEN 404
                   ELSE IF Val(wishlistItem).stockQuantity < quantity THEN 400
                   ELSE 200
     IN  /\ cart' = IF status = 200 THEN [cart EXCEPT ![u][id[2]] = Some(NewCartQuantity(@, quantity))]
                    ELSE cart
         /\ wishlist' = IF status = 200 THEN wishlist \ {id} ELSE wishlist
         /\ resp' = [op |-> "moveToCart", status |-> status, user |-> u, id |-> id,
                     quantity |-> quantity]
  /\ hist' = NoHist
  /\ UNCHANGED <<stock, discounts, orders, orderItems, now, req, adm, calc,
                 users, reviews, helpful, rv, more>>

\* prisma.order.findUnique({where: {orderNumber}, include: {items}})
FindOrderByNumber(orderNumber) ==
  IF OrderNumberTaken(orderNumber)
  THEN Some(orders[CHOOSE i \in 1..Len(orders) : orders[i].orderNumber = orderNumber])
  ELSE NULL

\* OrderController.getOrderByNumber: `data` is the order the answer carries.
GetOrderByNumber(u, orderNumber) ==
  /\ nReq < MaxRequests
  /\ nReq' = nReq + 1
  /\ LET order == FindOrderByNumber(orderNumber)
     IN  resp' = IF OwnedBy(order, u)
                 THEN [op |-> "getOrderByNumber", status |-> 200, user |-> u,
                       id |-> orderNumber, data |-> order]
                 ELSE [op |-> "getOrderByNumber", status |-> 404, user |-> u,
                       id |-> orderNumber, data |-> NULL]
  /\ hist' = NoHist
  /\ UNCHANGED <<stock, cart, discounts, orders, orderItems, now, req, adm, calc, ext, more>>

\* ------------------------------------------------------------ reviews
\* prisma.review.findUnique({where: {id}})
FindReview(id) ==
  IF id \in 1..Len(reviews) /\ ~reviews[id].deleted THEN Some(reviews[id]) ELSE NULL

\* prisma.review.findUnique({where: {productId_userId: {productId, userId}}}),
\* which is also the unique index an insert is checked against.
ReviewExists(productId, userId) ==
  \E i \in 1..Len(reviews) : /\ ~reviews[i].deleted
                             /\ reviews[i].productId = productId
                             /\ reviews[i].userId = userId

\* `!comment || comment.trim().length === 0`
BlankComment(comment) ==
  IsNull(comment) \/ Val(comment) = <<>> \/ trim(Val(comment)) = <<>>

\* The validation of ReviewController.create, then its product and
\* existing-review lookups: the status it throws, or 200 to go on.
ReviewCreateCheck(u, productId, rating, comment) ==
  IF ~Truthy(rating) \/ IsNull(comment) \/ Val(comment) = <<>> THEN 400
  ELSE IF Val(rating) < 1 \/ Val(rating) > 5 THEN 400
  ELSE IF BlankComment(comment) THEN 400
  ELSE IF productId \notin ProductIds THEN 404
  ELSE IF ReviewExists(productId, u) THEN 409
  ELSE 200

\* ReviewController.create up to its last read.
ReviewCreateRead(s, u, productId, rating, comment) ==
  /\ nReq < MaxRequests
  /\ rv[s] = Idle
  /\ nReq' = nReq + 1
  /\ IF ReviewCreateCheck(u, productId, rating, comment) = 200
     THEN /\ rv' = [rv EXCEPT ![s] = [pc |-> "create", user |-> u,
                                      productId |-> productId,
                                      rating |-> Val(rating),
                                      comment |-> Val(comment)]]
          /\ resp' = NoResp
     ELSE /\ rv' = rv
          /\ resp' = [op |-> "reviewCreate",
                      status |-> ReviewCreateCheck(u, productId, rating, comment),
                      user |-> u, rating |-> rating]
  /\ hist' = NoHist
  /\ UNCHANGED <<stock, cart, discounts, orders, orderItems, now, req, adm, calc,
                 users, wishlist, reviews, helpful, more>>

\* prisma.review.create: the insert fails on the unique index (productId,
\* userId) and the error, which has no statusCode, is answered 500.
ReviewCreateWrite(s) ==
  /\ rv[s].pc = "create"
  /\ rv' = [rv EXCEPT ![s] = Idle]
  /\ IF ReviewExists(rv[s].productId, rv[s].user)
     THEN /\ reviews' = reviews
          /\ resp' = [op |-> "reviewCreate", status |-> 500,
                      user |-> rv[s].user, rating |-> Some(rv[s].rating)]
     ELSE /\ reviews' = Append(reviews,
                          [id |-> Len(reviews) + 1, productId |-> rv[s].productId,
                           userId |-> rv[s].user, rating |-> rv[s].rating,
                           comment |-> rv[s].comment, helpfulCount |-> 0,
                           isApproved |-> TRUE, deleted |-> FALSE])
          /\ resp' = [op |-> "reviewCreate", status |-> 201,
                      user |-> rv[s].user, rating |-> Some(rv[s].rating)]
  /\ hist' = NoHist
  /\ UNCHANGED <<stock, cart, discounts, orders, orderItems, now, req, adm, nReq,
                 calc, users, wishlist, helpful, more>>

\* The status ReviewController.update throws after it found the caller's
\* review, or 200 to write.
ReviewUpdateCheck(rating, comment) ==
  IF Truthy(rating) /\ (Val(rating) < 1 \/ Val(rating) > 5) THEN 400
  ELSE IF BlankComment(comment) THEN 400
  ELSE 200

\* ReviewController.update
ReviewUpdate(u, id, rating, comment) ==
  /\ nReq < MaxRequests
  /\ nReq' = nReq + 1
  /\ LET status == IF ~OwnedBy(FindReview(id), u) THEN 404
                   ELSE ReviewUpdateCheck(rating, comment)
     IN  /\ reviews' =
              IF status = 200
              THEN [reviews EXCEPT ![id] =
                      [@ EXCEPT !.rating = IF Truthy(rating) THEN Val(rating) ELSE @,
                                !.comment = Val(comment)]]
              ELSE reviews
         /\ resp' = [op |-> "reviewUpdate", status |-> status, user |-> u,
                     id |-> id, rating |-> rating]
  /\ hist' = NoHist
  /\ UNCHANGED <<stock, cart, discounts, orders, orderItems, now, req, adm, calc,
                 users, wishlist, helpful, rv, more>>

\* The helpful-vote rows of a review.
VotesOf(reviewId) == SelectSeq(helpful, LAMBDA v : v.reviewId = reviewId)

\* ReviewController.delete.  What the delete does to the review's vote rows is
\* the schema's choice (cascade, or refuse the delete): both are possible.
ReviewDelete(u, id) ==
  /\ nReq < MaxRequests
  /\ nReq' = nReq + 1
  /\ IF ~OwnedBy(FindReview(id), u)
     THEN /\ UNCHANGED <<reviews, helpful>>
          /\ resp' = [op |-> "reviewDelete", status |-> 404, user |-> u, id |-> id]
     ELSE \E cascade \in (IF VotesOf(id) = <<>> THEN {TRUE} ELSE BOOLEAN) :
            IF cascade
            THEN /\ reviews' = [reviews EXCEPT ![id].deleted = TRUE]
                 /\ helpful' = SelectSeq(helpful, LAMBDA v : v.reviewId # id)
                 /\ resp' = [op |-> "reviewDelete", status |-> 200, user |-> u,
                             id |-> id]
            ELSE /\ UNCHANGED <<reviews, helpful>>
                 /\ resp' = [op |-> "reviewDelete", status |-> 500, user |-> u,
                             id |-> id]
  /\ hist' = NoHist
  /\ UNCHANGED <<stock, cart, discounts, orders, orderItems, now, req, adm, calc,
                 users, wishlist, rv, more>>

\* ------------------------------------------------------------ helpful votes
\* prisma.reviewHelpful.findUnique({where: {reviewId_userId}})
HasVote(reviewId, userId) ==
  \E i \in 1..Len(helpful) : helpful[i] = [reviewId |-> reviewId, userId |-> userId]

\* The unique index (reviewId, userId) refuses a second row of the pair.
HelpfulVoteTakenNever(reviewId, userId) == FALSE

HelpfulVoteTaken(reviewId, userId) == HasVote(reviewId, userId)

\* ReviewController.markHelpful up to its last read.
MarkHelpfulRead(s, u, reviewId) ==
  /\ nReq < MaxRequests
  /\ rv[s] = Idle
  /\ nReq' = nReq + 1
  /\ IF IsNull(FindReview(reviewId))
     THEN /\ rv' = rv
          /\ resp' = [op |-> "markHelpful", status |-> 404]
     ELSE IF HasVote(reviewId, u)
     THEN /\ rv' = rv
          /\ resp' = [op |-> "markHelpful", status |-> 409]
     ELSE /\ rv' = [rv EXCEPT ![s] = [pc |-> "mark", user |-> u,
                                      reviewId |-> reviewId]]
          /\ resp' = NoResp
  /\ hist' = NoHist
  /\ UNCHANGED <<stock, cart, discounts, orders, orderItems, now, req, adm, calc,
                 users, wishlist, reviews, helpful, more>>

\* prisma.$transaction([reviewHelpful.create, review.update increment]): both
\* statements or, when one fails, neither.
MarkHelpfulWrite(s) ==
  /\ rv[s].pc = "mark"
  /\ rv' = [rv EXCEPT ![s] = Idle]
  /\ IF HelpfulVoteTaken(rv[s].reviewId, rv[s].user) \/ IsNull(FindReview(rv[s].reviewId))
     THEN /\ UNCHANGED <<reviews, helpful>>
          /\ resp' = [op |-> "markHelpful", status |-> 500]
     ELSE /\ helpful' = Append(helpful, [reviewId |-> rv[s].reviewId,
                                         userId |-> rv[s].user])
          /\ reviews' = [reviews EXCEPT ![rv[s].reviewId].helpfulCount = @ + 1]
          /\ resp' = [op |-> "markHelpful", status |-> 200]
  /\ hist' = NoHist
  /\ UNCHANGED <<stock, cart, discounts, orders, orderItems, now, req, adm, nReq,
                 calc, users, wishlist, more>>

\* ReviewController.removeHelpful up to its read.
RemoveHelpfulRead(s, u, reviewId) ==
  /\ nReq < MaxRequests
  /\ rv[s] = Idle
  /\ nReq' = nReq + 1
  /\ IF ~HasVote(reviewId, u)
     THEN /\ rv' = rv
          /\ resp' = [op |-> "removeHelpful", status |-> 404]
     ELSE /\ rv' = [rv EXCEPT ![s] = [pc |-> "unmark", user |-> u,
                                      reviewId |-> reviewId]]
          /\ resp' = NoResp
  /\ hist' = NoHist
  /\ UNCHANGED <<stock, cart, discounts, orders, orderItems, now, req, adm, calc,
                 users, wishlist, reviews, helpful, more>>

\* The rows without the first one of the pair.
RECURSIVE DeleteVote(_, _, _)
DeleteVote(rows, reviewId, userId) ==
  IF rows = <<>> THEN <<>>
  ELSE IF Head(rows) = [reviewId |-> reviewId, userId |-> userId] THEN Tail(rows)
  ELSE <<Head(rows)>> \o DeleteVote(Tail(rows), reviewId, userId)

\* prisma.$transaction([reviewHelpful.delete, review.update decrement]): the
\* delete throws when the row is gone and then nothing is written.
RemoveHelpfulWrite(s) ==
  /\ rv[s].pc = "unmark"
  /\ rv' = [rv EXCEPT ![s] = Idle]
  /\ IF ~HasVote(rv[s].reviewId, rv[s].user) \/ IsNull(FindReview(rv[s].reviewId))
     THEN /\ UNCHANGED <<reviews, helpful>>
          /\ resp' = [op |-> "removeHelpful", status |-> 500]
     ELSE /\ helpful' = DeleteVote(helpful, rv[s].reviewId, rv[s].user)
          /\ reviews' = [reviews EXCEPT ![rv[s].reviewId].helpfulCount = @ - 1]
          /\ resp' = [op |-> "removeHelpful", status |-> 200]
  /\ hist' = NoHist
  /\ UNCHANGED <<stock, cart, discounts, orders, orderItems, now, req, adm, nReq,
                 calc, users, wishlist, more>>

\* ------------------------------------------------------------ errors
\* class CustomError extends Error: an error object is its message, its
\* statusCode (none on a plain Error) and its errors payload.
CustomError(message, statusCode, errors) ==
  [message |-> message, statusCode |-> Some(statusCode), errors |-> errors]

\* new Error(message), and the errors a library throws: no statusCode.
PlainError(message) == [message |-> message, statusCode |-> NULL, errors |-> NULL]

\* A constructor's message parameter with its default value.
OrDefault(message, default) == IF IsNull(message) THEN default ELSE Val(message)

BadRequestError(message, errors) ==
  CustomError(OrDefault(message, "Bad Request"), 400, errors)
UnauthorizedError(message) == CustomError(OrDefault(message, "Unauthorized"), 401, NULL)
ForbiddenError(message) == CustomError(OrDefault(message, "Forbidden"), 403, NULL)
NotFoundError(message) == CustomError(OrDefault(message, "Resource not found"), 404, NULL)
ConflictError(message) == CustomError(OrDefault(message, "Conflict"), 409, NULL)
ValidationError(message, errors) ==
  CustomError(OrDefault(message, "Validation failed"), 422, errors)
InternalServerError(message) ==
  CustomError(OrDefault(message, "Internal Server Error"), 500, NULL)

ErrorClasses ==
  {"BadRequestError", "UnauthorizedError", "ForbiddenError", "NotFoundError",
   "ConflictError", "ValidationError", "InternalServerError", "Error"}

\* `throw new <class>(message, errors)`; a plain Error always has a message.
NewError(class, message, errors) ==
  CASE class = "BadRequestError" -> BadRequestError(message, errors)
    [] class = "UnauthorizedError" -> UnauthorizedError(message)
    [] class = "ForbiddenError" -> ForbiddenError(message)
    [] class = "NotFoundError" -> NotFoundError(message)
    [] class = "ConflictError" -> ConflictError(message)
    [] class = "ValidationError" -> ValidationError(message, errors)
    [] class = "InternalServerError" -> InternalServerError(message)
    [] class = "Error" -> PlainError(OrDefault(message, "JWT_SECRET is not defined"))

\* errorHandler answering 500 whatever the error is.
errorHandlerAlways500(err, nodeEnv) ==
  [status |-> 500,
   body |-> [status |-> "error",
             message |-> IF err.message # "" THEN err.message
                         ELSE "Internal Server Error",
             errors |-> IF nodeEnv = "development" THEN err.errors ELSE NULL]]

\* errorHandler: `err.statusCode || 500`, `err.message || "Internal Server
\* Error"`, and the errors payload only when NODE_ENV is development.
errorHandler(err, nodeEnv) ==
  [status |-> IF Truthy(err.statusCode) THEN Val(err.statusCode) ELSE 500,
   body |-> [status |-> "error",
             message |-> IF err.message # "" THEN err.message
                         ELSE "Internal Server Error",
             errors |-> IF nodeEnv = "development" THEN err.errors ELSE NULL]]

\* A handler throws inside its try block: `catch (error) { next(error) }`
\* hands the error to errorHandler, registered last on the app.
RaiseError(class, message, errors, nodeEnv) ==
  /\ calc' = [op |-> "error", class |-> class,
              err |-> NewError(class, message, errors),
              response |-> errorHandler(NewError(class, message, errors), nodeEnv)]
  /\ UNCHANGED <<stock, cart, discounts, orders, orderItems, now, req, adm, nReq, hist,
                 ext, resp, more>>

\* ------------------------------------------------------------ stock status
\* Product.lowStockThreshold, by product id (`lowStockThreshold || 5` at create).
LowStockThreshold == <<1, 5>>

\* ProductController.transformProductResponse: the stockStatus of a product.
ProductStockStatus(stockQuantity, lowStockThreshold) ==
  IF stockQuantity = 0 THEN "out_of_stock"
  ELSE IF stockQuantity <= lowStockThreshold THEN "low_stock"
  ELSE "in_stock"

\* CartController.getCart: the stockStatus of a cart item's product.
CartStockStatus(stockQuantity, lowStockThreshold) ==
  IF stockQuantity = 0 THEN "out_of_stock"
  ELSE IF stockQuantity <= lowStockThreshold THEN "low_stock"
  ELSE "in_stock"

\* WishlistController.getWishlist: the stockStatus of a wishlist item's product.
WishlistStockStatus(stockQuantity, lowStockThreshold) ==
  IF stockQuantity = 0 THEN "out_of_stock"
  ELSE IF stockQuantity <= lowStockThreshold THEN "low_stock"
  ELSE "in_stock"

\* The product, cart and wishlist responses label product `p` as it is now.
\* The reads write nothing.
StockStatusCalc(p) ==
  /\ calc' = [op |-> "stockStatus", stockQuantity |-> stock[p],
              lowStockThreshold |-> LowStockThreshold[p],
              product |-> ProductStockStatus(stock[p], LowStockThreshold[p]),
              cart |-> CartStockStatus(stock[p], LowStockThreshold[p]),
              wishlist |-> WishlistStockStatus(stock[p], LowStockThreshold[p])]
  /\ hist' = NoHist
  /\ resp' = NoResp
  /\ UNCHANGED <<stock, cart, discounts, orders, orderItems, now, req, adm, nReq, ext, more>>

\* ------------------------------------------------------------ discount validation
\* A validation that never looks at the usage limit.
ValidateCodeCheckNoLimit(found, t, cartSubtotal) ==
  IF IsNull(found) THEN "Invalid discount code"
  ELSE IF ~Val(found).isActive THEN "This discount code is no longer active"
  ELSE IF t < Val(found).startDate \/ t > Val(found).endDate
  THEN "This discount code has expired"
  ELSE IF /\ Truthy(Val(found).minPurchaseAmount)
          /\ cartSubtotal < Val(Val(found).minPurchaseAmount)
  THEN "Minimum purchase amount required"
  ELSE "Discount code is valid"

\* DiscountController.validateCode: the early returns, in order, for the
\* record the lookup found and the time `t`; the text is the answer's message.
ValidateCodeCheck(found, t, cartSubtotal) ==
  IF IsNull(found) THEN "Invalid discount code"
  ELSE IF ~Val(found).isActive THEN "This discount code is no longer active"
  ELSE IF t < Val(found).startDate \/ t > Val(found).endDate
  THEN "This discount code has expired"
  ELSE IF /\ Truthy(Val(found).usageLimit)
          /\ Val(found).usedCount >= Val(Val(found).usageLimit)
  THEN "This discount code has reached its usage limit"
  ELSE IF /\ Truthy(Val(found).minPurchaseAmount)
          /\ cartSubtotal < Val(Val(found).minPurchaseAmount)
  THEN "Minimum purchase amount required"
  ELSE "Discount code is valid"

\* Math.round(discountAmount * 100) / 100, for an amount in whole rupees.
RoundTo2Decimals(discountAmount) == (discountAmount * 100) \div 100

\* DiscountController.validateCode: the discountAmount of a valid answer.
ValidateCodeAmount(discount, cartSubtotal) ==
  LET amount == IF discount.type = "percentage"
                THEN (cartSubtotal * discount.value) \div 100
                ELSE discount.value
      capped == IF /\ Truthy(discount.maxDiscountAmount)
                   /\ amount > Val(discount.maxDiscountAmount)
                THEN Val(discount.maxDiscountAmount)
                ELSE amount
      bounded == IF capped > cartSubtotal THEN cartSubtotal ELSE capped
  IN  RoundTo2Decimals(bounded)

\* DiscountController.validateCode, after the lookup by code: the answer.
ValidateCodeAnswer(found, t, cartSubtotal) ==
  IF cartSubtotal <= 0
  THEN [status |-> 400, valid |-> FALSE, message |-> "Valid cart subtotal is required",
        discountAmount |-> NULL]
  ELSE LET message == ValidateCodeCheck(found, t, cartSubtotal)
       IN  IF message = "Discount code is valid"
           THEN [status |-> 200, valid |-> TRUE, message |-> message,
                 discountAmount |-> Some(ValidateCodeAmount(Val(found), cartSubtotal))]
           ELSE [status |-> 200, valid |-> FALSE, message |-> message,
                 discountAmount |-> NULL]

\* validateCode and the discount step of checkout, for the same record read
\* at the same time and the same subtotal.
ValidateCodeCalc(found, cartSubtotal) ==
  /\ calc' = [op |-> "validateCode", found |-> found, subtotal |-> cartSubtotal,
              answer |-> ValidateCodeAnswer(found, now, cartSubtotal),
              checkout |-> CheckoutDiscount(found, now, cartSubtotal)]
  /\ hist' = NoHist
  /\ resp' = NoResp
  /\ UNCHANGED <<stock, cart, discounts, orders, orderItems, now, req, adm, nReq, ext, more>>

\* ------------------------------------------------------------ password reset
\* PASSWORD_RESET_TOKEN_EXPIRY, default "1h": the lifetime of a reset token,
\* in ticks of the clock.
ResetTtl == 1

\* TokenUtil.getTokenExpiry: the clock plus the duration.
getTokenExpiry(duration) == now + duration

\* A token check that lets every token through.
isTokenExpiredNever(expiryDate) == FALSE

\* TokenUtil.isTokenExpired: `new Date() > expiryDate`
isTokenExpired(expiryDate) == now > expiryDate

\* AuthService.validatePassword: at least 6 characters.
validatePassword(password) == ~(Len(password) < 6)

\* AuthController.forgotPassword for the e-mail address of user `u`.  The
\* token is random: the number of the request stands for it, so that no two
\* requests generate the same one.
ForgotPassword(u) ==
  /\ nReq < MaxRequests
  /\ nReq' = nReq + 1
  /\ users' = [users EXCEPT ![u].passwordResetToken = Some(nReq + 1),
                            ![u].passwordResetExpiry = Some(getTokenExpiry(ResetTtl))]
  /\ resp' = [op |-> "forgotPassword", status |-> 200]
  /\ hist' = NoHist
  /\ UNCHANGED <<stock, cart, discounts, orders, orderItems, now, req, adm, calc,
                 wishlist, reviews, helpful, rv, more>>

\* prisma.user.findUnique({where: {passwordResetToken: token}})
FindUserByResetToken(token) ==
  IF \E u \in UserIds : users[u].passwordResetToken = Some(token)
  THEN Some(CHOOSE u \in UserIds : users[u].passwordResetToken = Some(token))
  ELSE NULL

\* What AuthController.resetPassword throws before it hashes the password,
\* or "ok".
ResetPasswordCheck(token, newPassword) ==
  IF IsNull(token) \/ IsNull(newPassword) \/ Val(newPassword) = <<>> THEN "required"
  ELSE IF ~validatePassword(Val(newPassword)) THEN "password"
  ELSE IF IsNull(FindUserByResetToken(Val(token))) THEN "invalid"
  ELSE IF \/ IsNull(users[Val(FindUserByResetToken(Val(token)))].passwordResetExpiry)
          \/ isTokenExpired(
               Val(users[Val(FindUserByResetToken(Val(token)))].passwordResetExpiry))
       THEN "expired"
  ELSE "ok"

\* AuthController.resetPassword up to the expiry check.
ResetPasswordRead(s, token, newPassword) ==
  /\ nReq < MaxRequests
  /\ rv[s] = Idle
  /\ nReq' = nReq + 1
  /\ IF ResetPasswordCheck(token, newPassword) = "ok"
     THEN /\ rv' = [rv EXCEPT ![s] = [pc |-> "reset",
                                      user |-> Val(FindUserByResetToken(Val(token))),
                                      token |-> Val(token),
                                      newPassword |-> Val(newPassword)]]
          /\ resp' = NoResp
     ELSE /\ rv' = rv
          /\ resp' = [op |-> "resetPassword", status |-> 400, token |-> token,
                      message |-> ResetPasswordCheck(token, newPassword)]
  /\ hist' = NoHist
  /\ UNCHANGED <<stock, cart, discounts, orders, orderItems, now, req, adm, calc,
                 users, wishlist, reviews, helpful, more>>

\* The password is hashed and prisma.user.update({where: {id}}) stores the
\* hash and clears the token and its expiry.
ResetPasswordWrite(s) ==
  /\ rv[s].pc = "reset"
  /\ rv' = [rv EXCEPT ![s] = Idle]
  /\ users' = [users EXCEPT ![rv[s].user].passwordHash = hashPassword(rv[s].newPassword),
                            ![rv[s].user].passwordResetToken = NULL,
                            ![rv[s].user].passwordResetExpiry = NULL]
  /\ usedTokens' = usedTokens \cup {rv[s].token}
  /\ resp' = [op |-> "resetPassword", status |-> 200, token |-> Some(rv[s].token),
              message |-> "ok"]
  /\ hist' = NoHist
  /\ UNCHANGED <<stock, cart, discounts, orders, orderItems, now, req, adm, nReq,
                 calc, wishlist, reviews, helpful, categories, images, nProducts>>

\* ------------------------------------------------------------ categories
\* prisma.category.findUnique({where: {id}})
FindCategory(id) ==
  IF id \in 1..Len(categories) THEN Some(categories[id]) ELSE NULL

\* prisma.category.findUnique({where: {slug}})
CategorySlugTaken(slug) == \E i \in 1..Len(categories) : categories[i].slug = slug

\* The status CategoryController.create throws, or 201 to insert.
CategoryCreateCheck(inp) ==
  IF ~Truthy(inp.level) \/ Val(inp.level) \notin {1, 2, 3} THEN 400
  ELSE IF Val(inp.level) > 1 /\ ~Truthy(inp.parentId) THEN 400
  ELSE IF Truthy(inp.parentId) /\ IsNull(FindCategory(Val(inp.parentId))) THEN 404
  ELSE IF /\ Truthy(inp.parentId)
          /\ Val(FindCategory(Val(inp.parentId))).level # Val(inp.level) - 1
       THEN 400
  ELSE IF CategorySlugTaken(inp.slug) THEN 409
  ELSE 201

\* CategoryController.create
CategoryCreate(inp) ==
  /\ nReq < MaxRequests
  /\ nReq' = nReq + 1
  /\ categories' =
       IF CategoryCreateCheck(inp) = 201
       THEN Append(categories, [id |-> Len(categories) + 1, slug |-> inp.slug,
                                level |-> Val(inp.level), parentId |-> inp.parentId])
       ELSE categories
  /\ resp' = [op |-> "categoryCreate", status |-> CategoryCreateCheck(inp)]
  /\ hist' = NoHist
  /\ UNCHANGED <<stock, cart, discounts, orders, orderItems, now, req, adm, calc, ext,
                 images, usedTokens, nProducts>>

\* The status CategoryController.update throws, or 200 to write.  `patch.has`
\* says whether the body has a parentId at all (`!== undefined`).
CategoryUpdateCheck(id, patch) ==
  IF IsNull(FindCategory(id)) THEN 404
  ELSE IF patch.has /\ patch.parentId = Some(id) THEN 400
  ELSE IF /\ patch.has
          /\ ~IsNull(patch.parentId)
          /\ IsNull(FindCategory(Val(patch.parentId)))
       THEN 404
  ELSE 200

\* CategoryController.update with a body that may carry a parentId:
\* prisma.category.update({data: updateData}).
CategoryUpdate(id, patch) ==
  /\ nReq < MaxRequests
  /\ nReq' = nReq + 1
  /\ categories' =
       IF CategoryUpdateCheck(id, patch) = 200 /\ patch.has
       THEN [categories EXCEPT ![id].parentId = patch.parentId]
       ELSE categories
  /\ resp' = [op |-> "categoryUpdate", status |-> CategoryUpdateCheck(id, patch)]
  /\ hist' = NoHist
  /\ UNCHANGED <<stock, cart, discounts, orders, orderItems, now, req, adm, calc, ext,
                 images, usedTokens, nProducts>>

\* ------------------------------------------------------------ product images
\* The ids of the products that exist.
ExistingProducts == 1..(Cardinality(ProductIds) + nProducts)

\* The ProductImage rows made of the `images` of a request body, each given
\* by its isPrimary (`image.isPrimary || false`), for product `productId`.
NewImageRows(productId, imgs) ==
  [i \in 1..Len(imgs) |-> [productId |-> productId, isPrimary |-> imgs[i]]]

\* prisma.productImage.updateMany({where: {productId, id: {not}}, data:
\* {isPrimary: false}}); `except` 0 names no row.
UnsetPrimary(rows, productId, except) ==
  [i \in 1..Len(rows) |->
     IF rows[i].productId = productId /\ i # except
     THEN [rows[i] EXCEPT !.isPrimary = FALSE]
     ELSE rows[i]]

\* ProductController.create: the product and its images, in one transaction.
ProductCreate(imgs) ==
  /\ nReq < MaxRequests
  /\ nReq' = nReq + 1
  /\ nProducts' = nProducts + 1
  /\ images' = images \o NewImageRows(Cardinality(ProductIds) + nProducts + 1, imgs)
  /\ resp' = [op |-> "productCreate", status |-> 201]
  /\ hist' = NoHist
  /\ UNCHANGED <<stock, cart, discounts, orders, orderItems, now, req, adm, calc, ext,
                 categories, usedTokens>>

\* ProductController.addImages
AddImages(productId, imgs) ==
  /\ nReq < MaxRequests
  /\ nReq' = nReq + 1
  /\ LET status == IF Len(imgs) = 0 THEN 400
                   ELSE IF productId \notin ExistingProducts THEN 404
                   ELSE 201
         hasPrimary == \E i \in 1..Len(imgs) : imgs[i]
     IN  /\ images' = IF status # 201 THEN images
                      ELSE (IF hasPrimary THEN UnsetPrimary(images, productId, 0)
                            ELSE images) \o NewImageRows(productId, imgs)
         /\ resp' = [op |-> "addImages", status |-> status]
  /\ hist' = NoHist
  /\ UNCHANGED <<stock, cart, discounts, orders, orderItems, now, req, adm, calc, ext,
                 categories, usedTokens, nProducts>>

\* The image of product `productId` that `imageId` names, if there is one.
ImageFound(productId, imageId) ==
  imageId \in 1..Len(images) /\ images[imageId].productId = productId

\* ProductController.updateImage; isPrimary is NULL when the body has none
\* (the update then leaves the column alone).
UpdateImage(productId, imageId, isPrimary) ==
  /\ nReq < MaxRequests
  /\ nReq' = nReq + 1
  /\ IF ~ImageFound(productId, imageId)
     THEN /\ images' = images
          /\ resp' = [op |-> "updateImage", status |-> 404,
                      productId |-> productId, imageId |-> imageId]
     ELSE /\ images' =
               LET others == IF isPrimary = Some(TRUE)
                             THEN UnsetPrimary(images, productId, imageId)
                             ELSE images
               IN  IF IsNull(isPrimary) THEN others
                   ELSE [others EXCEPT ![imageId].isPrimary = Val(isPrimary)]
          /\ resp' = [op |-> "updateImage", status |-> 200,
                      productId |-> productId, imageId |-> imageId]
  /\ hist' = NoHist
  /\ UNCHANGED <<stock, cart, discounts, orders, orderItems, now, req, adm, calc, ext,
                 categories, usedTokens, nProducts>>

\* ProductController.setPrimaryImage
SetPrimaryImage(productId, imageId) ==
  /\ nReq < MaxRequests
  /\ nReq' = nReq + 1
  /\ IF ~ImageFound(productId, imageId)
     THEN /\ images' = images
          /\ resp' = [op |-> "setPrimaryImage", status |-> 404,
                      productId |-> productId, imageId |-> imageId]
     ELSE /\ images' = [UnsetPrimary(images, productId, 0)
                          EXCEPT ![imageId].isPrimary = TRUE]
          /\ resp' = [op |-> "setPrimaryImage", status |-> 200,
                      productId |-> productId, imageId |-> imageId]
  /\ hist' = NoHist
  /\ UNCHANGED <<stock, cart, discounts, orders, orderItems, now, req, adm, calc, ext,
                 categories, usedTokens, nProducts>>

\* ------------------------------------------------------------ shipping (pure)
\* One evaluation of the shipping cost: as checkout computes it inline and as
\* calculateShippingCost computes it.
ShippingCalc(city, subtotal) ==
  /\ calc' = [op |-> "shipping", city |-> city, subtotal |-> subtotal,
              inline |-> CheckoutShipping(city, subtotal),
              shared |-> calculateShippingCost(city, subtotal),
              inside |-> isInsideValley(city)]
  /\ UNCHANGED <<stock, cart, discounts, orders, orderItems, now, req, adm, nReq, hist,
               ext, resp, more>>

\* ------------------------------------------------------------ specification
\* Concurrent customers and an admin over one seeded discount.
Next ==
  \/ \E u \in UserIds, p \in ProductIds, q \in 1..MaxQty : AddToCart(u, p, q) /\ Direct
  \/ \E u \in UserIds, c \in MainCities, pay \in MainPayments, code \in MainCodes :
       CheckoutStart(u, c, pay, code) /\ Direct
  \/ \E u \in UserIds : CheckoutDiscountRead(u) /\ Direct
  \/ \E u \in UserIds : CheckoutTx(u) /\ Direct
  \/ \E u \in UserIds : CheckoutCommit(u) /\ Direct
  \/ \E u \in UserIds : CheckoutAbort(u) /\ Direct
  \/ \E a \in AdminReqs, o \in OrderIdInputs, st \in MainStatuses :
       UpdateOrderStatusRead(a, o, st) /\ Direct
  \/ \E a \in AdminReqs : UpdateOrderStatusWrite(a) /\ Direct

Spec == Init /\ [][Next]_vars

\* ---- discount specification: one customer, the admin's discount requests, a clock
CodeNope == <<"n","o","p","e">>
DiscCodes == {NULL, Some(CodeSave), Some(CodeNope)}
DiscUsers == {1}

\* Valid bodies that vary the conditions (minimum purchase, usage limit), valid
\* bodies that vary the amount (type, value, cap), and bodies create rejects.
\* The money columns are never given as 0: whether a stored 0 is falsy depends
\* on the column type, which the controllers do not fix.
DiscountInputs ==
  { [code |-> CodeSave, type |-> "percentage", value |-> 10,
     minPurchaseAmount |-> mn, maxDiscountAmount |-> NULL,
     startDate |-> 1, endDate |-> 2, usageLimit |-> lim] :
      mn \in {NULL, Some(1000)}, lim \in {NULL, Some(0), Some(1)} }
  \cup
  { [code |-> CodeSave, type |-> tv[1], value |-> tv[2],
     minPurchaseAmount |-> NULL, maxDiscountAmount |-> mx,
     startDate |-> 1, endDate |-> 2, usageLimit |-> NULL] :
      tv \in {<<"percentage", 10>>, <<"fixed", 100>>, <<"fixed", 3000>>},
      mx \in {NULL, Some(-50), Some(30)} }
  \cup
  { [code |-> CodeSave, type |-> tv[1], value |-> tv[2],
     minPurchaseAmount |-> NULL, maxDiscountAmount |-> NULL,
     startDate |-> tv[3], endDate |-> 1, usageLimit |-> NULL] :
      tv \in {<<"percentage", 150, 0>>, <<"fixed", 0, 0>>, <<"fixed", -5, 0>>,
              <<"bogus", 10, 0>>, <<"fixed", 100, 1>>} }

DiscountPatches ==
  << [field |-> "isActive", value |-> FALSE],
     [field |-> "value", value |-> -10],
     [field |-> "endDate", value |-> 1] >>

DiscProducts == {1}

InitDisc ==
  /\ stock = [p \in ProductIds |-> InitStock]
  /\ cart = [u \in UserIds |-> [p \in ProductIds |-> NULL]]
  /\ discounts = <<>>
  /\ orders = <<>>
  /\ orderItems = <<>>
  /\ now = 0
  /\ req = [u \in UserIds |-> Idle]
  /\ adm = [a \in AdminReqs |-> Idle]
  /\ nReq = 0
  /\ hist = NoHist
  /\ calc = NoCalc
  /\ users = [u \in UserIds |->
                [isEmailVerified |-> FALSE, emailVerificationToken |-> Some(u),
                 passwordHash |-> InitialHash, passwordResetToken |-> NULL,
                 passwordResetExpiry |-> NULL]]
  /\ wishlist = {}
  /\ reviews = <<>>
  /\ helpful = <<>>
  /\ rv = [s \in RvSlots |-> Idle]
  /\ resp = NoResp
  /\ arrival = NoArrival
  /\ categories = <<>>
  /\ images = <<>>
  /\ usedTokens = {}
  /\ nProducts = 0

NextDisc ==
  \/ \E inp \in DiscountInputs : DiscountCreate(inp) /\ Direct
  \/ \E id \in {1, 2}, k \in 1..Len(DiscountPatches) :
       DiscountUpdate(id, DiscountPatches[k]) /\ Direct
  \/ Tick /\ Direct
  \/ \E u \in DiscUsers, p \in DiscProducts, q \in 1..MaxQty : AddToCart(u, p, q) /\ Direct
  \/ \E u \in DiscUsers, code \in DiscCodes :
       CheckoutStart(u, CityKathmandu, [method |-> "cod", txn |-> NULL], code) /\ Direct
  \/ \E u \in DiscUsers : CheckoutDiscountRead(u) /\ Direct
  \/ \E u \in DiscUsers : CheckoutTx(u) /\ Direct
  \/ \E u \in DiscUsers : CheckoutCommit(u) /\ Direct
  \/ \E u \in DiscUsers : CheckoutAbort(u) /\ Direct

SpecDisc == InitDisc /\ [][NextDisc]_vars

\* ---- shipping specification: the two shipping computations on the same inputs
ShipCities ==
  { CityKathmandu, CityPokhara,
    <<" ","K","A","T","H","M","A","N","D","U"," ">>,
    <<"N","e","w"," ","L","a","l","i","t","p","u","r","-","5">>,
    <<"B","h","a","k","t","a","p","u","r">>,
    <<"k","i","r","t","i","p","u","r">>,
    <<"T","h","i","m","i">>,
    <<"M","a","d","h","y","a","p","u","r"," ","T","h","i","m","i">>,
    <<"B","i","r","a","t","n","a","g","a","r">>,
    <<"D","h","a","r","a","n">>,
    <<"k">>, <<"a">>, <<"p","u","r">>, <<"K","a","t","h">>,
    <<" ">>, <<>>, <<"x">>, <<"m","a","n","d","u","x">> }

ShipSubtotals == {100, 500, 1500, 1999, 2000, 2001, 3000}

NextShip ==
  \E city \in ShipCities, subtotal \in ShipSubtotals : ShippingCalc(city, subtotal) /\ Direct

SpecShip == Init /\ [][NextShip]_vars

\* ---- order specification: one customer's orders, paid in every way, and the
\* admin's status and payment updates
TxnRef == <<"T","1">>
PayUsers == {1}
PayProducts == {1}
PayInputs ==
  { [method |-> "cod", txn |-> NULL],
    [method |-> "cod", txn |-> Some(TxnRef)],
    [method |-> "esewa", txn |-> NULL],
    [method |-> "khalti", txn |-> Some(<<" ", " ">>)],
    [method |-> "esewa", txn |-> Some(TxnRef)],
    [method |-> "bank_transfer", txn |-> Some(TxnRef)],
    [method |-> "paypal", txn |-> Some(TxnRef)] }
StatusInputs == ValidStatuses \cup {"returned"}
PaymentStatusInputs == ValidPaymentStatuses \cup {"refunded"}

NextPay ==
  \/ \E u \in PayUsers, p \in PayProducts : AddToCart(u, p, 1) /\ Direct
  \/ \E u \in PayUsers, pay \in PayInputs :
       CheckoutStart(u, CityKathmandu, pay, NULL) /\ Direct
  \/ \E u \in PayUsers : CheckoutDiscountRead(u) /\ Direct
  \/ \E u \in PayUsers : CheckoutTx(u) /\ Direct
  \/ \E u \in PayUsers : CheckoutCommit(u) /\ Direct
  \/ \E u \in PayUsers : CheckoutAbort(u) /\ Direct
  \/ \E a \in AdminReqs, o \in OrderIdInputs, st \in StatusInputs :
       UpdateOrderStatusRead(a, o, st) /\ Direct
  \/ \E a \in AdminReqs : UpdateOrderStatusWrite(a) /\ Direct
  \/ \E o \in OrderIdInputs, ps \in PaymentStatusInputs : UpdatePaymentStatus(o, ps) /\ Direct

SpecPay == Init /\ [][NextPay]_vars

\* ---- access specification: requests with every kind of Authorization header
\* on customer and admin routes, and e-mail verification
AuthHeaders ==
  {NoHeader, BasicHeader, BadBearer, Bearer(1, "customer"), Bearer(2, "admin")}
AuthDiscounts ==
  { [code |-> CodeNope, type |-> "fixed", value |-> 100,
     minPurchaseAmount |-> NULL, maxDiscountAmount |-> NULL,
     startDate |-> 1, endDate |-> 2, usageLimit |-> NULL] }

NextAuth ==
  \/ \E token \in {Some(1), Some(0)} : VerifyEmail(token)
  \/ \E h \in AuthHeaders :
       Through("POST /cart", h, AddToCart(h.userId, 1, 1))
  \/ \E h \in AuthHeaders :
       Through("POST /orders/checkout", h,
               CheckoutStart(h.userId, CityKathmandu,
                             [method |-> "cod", txn |-> NULL], NULL))
  \/ \E u \in UserIds : CheckoutDiscountRead(u) /\ Direct
  \/ \E u \in UserIds : CheckoutTx(u) /\ Direct
  \/ \E u \in UserIds : CheckoutCommit(u) /\ Direct
  \/ \E u \in UserIds : CheckoutAbort(u) /\ Direct
  \/ \E h \in AuthHeaders, a \in AdminReqs, st \in {"confirmed", "cancelled"} :
       Through("PATCH /orders/admin/:id/status", h, UpdateOrderStatusRead(a, 1, st))
  \/ \E a \in AdminReqs : UpdateOrderStatusWrite(a) /\ Direct
  \/ \E h \in AuthHeaders :
       Through("PATCH /orders/admin/:id/payment", h, UpdatePaymentStatus(1, "paid"))
  \/ \E h \in AuthHeaders, inp \in AuthDiscounts :
       Through("POST /discounts", h, DiscountCreate(inp))
  \/ \E h \in AuthHeaders :
       Through("PUT /discounts/:id", h, DiscountUpdate(1, DiscountPatches[1]))

SpecAuth == Init /\ [][NextAuth]_vars

\* ---- error specification: every error class, with its default message and
\* with messages the handlers give, under both NODE_ENV settings
ErrorMessages ==
  { NULL, Some("Product not found"), Some("Order not found"),
    Some("Valid quantity is required"), Some("Rating must be between 1 and 5"),
    Some("You have already reviewed this product"),
    Some("Invalid or expired token. Please login again."),
    Some("Access denied. Admin privileges required."),
    Some("Cart is empty. Add items before checkout."),
    Some("Review not found"), Some("Cart item not found") }
ErrorPayloads == { NULL, Some("fields") }

NextErr ==
  \E class \in ErrorClasses, message \in ErrorMessages, errors \in ErrorPayloads,
     nodeEnv \in {"development", "production"} :
    RaiseError(class, message, errors, nodeEnv) /\ Direct

SpecErr == Init /\ [][NextErr]_vars

\* ---- stock specification: concurrent checkouts move the stock, and the
\* product, cart and wishlist responses label it
NextStock ==
  \/ \E u \in UserIds, p \in ProductIds, q \in 1..MaxQty : AddToCart(u, p, q) /\ Direct
  \/ \E u \in UserIds :
       CheckoutStart(u, CityKathmandu, [method |-> "cod", txn |-> NULL], NULL) /\ Direct
  \/ \E u \in UserIds : CheckoutDiscountRead(u) /\ Direct
  \/ \E u \in UserIds : CheckoutTx(u) /\ Direct
  \/ \E u \in UserIds : CheckoutCommit(u) /\ Direct
  \/ \E u \in UserIds : CheckoutAbort(u) /\ Direct
  \/ \E p \in ProductIds : StockStatusCalc(p) /\ Direct

SpecStock == Init /\ [][NextStock]_vars

\* ---- ownership specification: two customers who add rows of their own and
\* address cart items, wishlist items, reviews and orders by id
OwnProducts == {1}
OwnItemIds == UserIds \X OwnProducts
OwnReviewIds == {1, 2}
OwnComment == <<"o", "k">>

NextOwn ==
  \/ \E u \in UserIds, p \in OwnProducts : AddToCart(u, p, 1) /\ Direct
  \/ \E u \in UserIds :
       CheckoutStart(u, CityKathmandu, [method |-> "cod", txn |-> NULL], NULL) /\ Direct
  \/ \E u \in UserIds : CheckoutDiscountRead(u) /\ Direct
  \/ \E u \in UserIds : CheckoutTx(u) /\ Direct
  \/ \E u \in UserIds : CheckoutCommit(u) /\ Direct
  \/ \E u \in UserIds : CheckoutAbort(u) /\ Direct
  \/ \E u \in UserIds, id \in OwnItemIds, q \in {0, 2} : UpdateCartItem(u, id, q) /\ Direct
  \/ \E u \in UserIds, id \in OwnItemIds : RemoveFromCart(u, id) /\ Direct
  \/ \E u \in UserIds, p \in OwnProducts : AddToWishlist(u, p) /\ Direct
  \/ \E u \in UserIds, id \in OwnItemIds : RemoveFromWishlist(u, id) /\ Direct
  \/ \E u \in UserIds, id \in OwnItemIds : MoveToCart(u, id, 1) /\ Direct
  \/ \E s \in RvSlots, u \in UserIds, p \in OwnProducts :
       ReviewCreateRead(s, u, p, Some(5), Some(OwnComment)) /\ Direct
  \/ \E s \in RvSlots : ReviewCreateWrite(s) /\ Direct
  \/ \E u \in UserIds, id \in OwnReviewIds :
       ReviewUpdate(u, id, Some(4), Some(OwnComment)) /\ Direct
  \/ \E u \in UserIds, id \in OwnReviewIds : ReviewDelete(u, id) /\ Direct
  \/ \E u \in UserIds, n \in {1, 2} : GetOrderByNumber(u, n) /\ Direct

SpecOwn == Init /\ [][NextOwn]_vars

\* ---- password specification: users ask for reset tokens and present
\* tokens, over two connections, while the clock runs
ResetTokens == {NULL, Some(0)} \cup {Some(t) : t \in 1..MaxRequests}
ResetPasswords == {NULL, Some(<<"a", "b", "c">>), Some(<<"s", "e", "c", "r", "e", "t">>)}

NextReset ==
  \/ \E u \in UserIds : ForgotPassword(u) /\ Direct
  \/ \E s \in RvSlots, token \in ResetTokens, newPassword \in ResetPasswords :
       ResetPasswordRead(s, token, newPassword) /\ Direct
  \/ \E s \in RvSlots : ResetPasswordWrite(s) /\ Direct
  \/ Tick /\ Direct

SpecReset == Init /\ [][NextReset]_vars

\* ---- category specification: an admin creates categories of every level,
\* with and without a parent, and moves them under other parents
CategoryInputs ==
  { [slug |-> slug, level |-> level, parentId |-> parentId] :
      slug \in {"skin", "hair", "oil"},
      level \in {NULL, Some(1), Some(2), Some(3), Some(4)},
      parentId \in {NULL, Some(1), Some(2), Some(3)} }
CategoryPatches ==
  { [has |-> FALSE, parentId |-> NULL] }
    \cup { [has |-> TRUE, parentId |-> parentId] :
             parentId \in {NULL, Some(1), Some(2), Some(3)} }

NextCat ==
  \/ \E inp \in CategoryInputs : CategoryCreate(inp) /\ Direct
  \/ \E id \in {1, 2, 3}, patch \in CategoryPatches : CategoryUpdate(id, patch) /\ Direct

SpecCat == Init /\ [][NextCat]_vars

\* ---- cancellation specification: user 1 has checked out one unit of
\* product 1 with the seeded discount code; admins change the order's status
\* over two connections, and customers keep ordering
CancelReqs == {1, 2}

\* The checkout that made the first order: its local values.
FirstCheckout ==
  [city |-> CityKathmandu, paymentMethod |-> "cod", transactionNumber |-> NULL,
   cartItems |-> << [productId |-> 1, quantity |-> 1, price |-> Price[1],
                     stockQuantity |-> InitStock, isActive |-> TRUE] >>,
   subtotal |-> Price[1],
   shippingCost |-> CheckoutShipping(CityKathmandu, Price[1]),
   discount |-> CheckoutDiscountAmount(SeedDiscount, Price[1]),
   discountId |-> Some(SeedDiscount.id),
   discountCodeUsed |-> Some(SeedDiscount.code),
   orderNumber |-> 1]

\* The rows after that checkout committed on the initial rows.
FirstOrderDb ==
  ExecAll([stock |-> [p \in ProductIds |-> InitStock],
           cart |-> [u \in UserIds |-> [p \in ProductIds |-> IF u = 1 /\ p = 1 THEN Some(1) ELSE NULL]],
           discounts |-> << SeedDiscount >>,
           orders |-> <<>>,
           orderItems |-> <<>>],
          CheckoutStatements(1, FirstCheckout), 1)

InitCancel ==
  /\ stock = FirstOrderDb.stock
  /\ cart = FirstOrderDb.cart
  /\ discounts = FirstOrderDb.discounts
  /\ orders = FirstOrderDb.orders
  /\ orderItems = FirstOrderDb.orderItems
  /\ now = 1
  /\ req = [u \in UserIds |-> Idle]
  /\ adm = [a \in CancelReqs |-> Idle]
  /\ nReq = 0
  /\ hist = NoHist
  /\ calc = NoCalc
  /\ users = [u \in UserIds |->
                [isEmailVerified |-> FALSE, emailVerificationToken |-> Some(u),
                 passwordHash |-> InitialHash, passwordResetToken |-> NULL,
                 passwordResetExpiry |-> NULL]]
  /\ wishlist = {}
  /\ reviews = <<>>
  /\ helpful = <<>>
  /\ rv = [s \in RvSlots |-> Idle]
  /\ resp = NoResp
  /\ arrival = NoArrival
  /\ categories = <<>>
  /\ images = <<>>
  /\ usedTokens = {}
  /\ nProducts = 0

NextCancel ==
  \/ \E u \in UserIds, q \in 1..MaxQty : AddToCart(u, 1, q) /\ Direct
  \/ \E u \in UserIds :
       CheckoutStart(u, CityKathmandu, [method |-> "cod", txn |-> NULL], NULL) /\ Direct
  \/ \E u \in UserIds : CheckoutDiscountRead(u) /\ Direct
  \/ \E u \in UserIds : CheckoutTx(u) /\ Direct
  \/ \E u \in UserIds : CheckoutCommit(u) /\ Direct
  \/ \E u \in UserIds : CheckoutAbort(u) /\ Direct
  \/ \E a \in CancelReqs, o \in OrderIdInputs, st \in {"confirmed", "cancelled"} :
       UpdateOrderStatusRead(a, o, st) /\ Direct
  \/ \E a \in CancelReqs : UpdateOrderStatusWrite(a) /\ Direct

SpecCancel == InitCancel /\ [][NextCancel]_vars

\* ---- cart specification: two users fill their carts from the catalogue
\* and from their wishlists, with the quantities a request body can carry
CartQuantities == (0 - 1)..MaxQty

NextCart ==
  \/ \E u \in UserIds, p \in OwnProducts, q \in CartQuantities : AddToCart(u, p, q) /\ Direct
  \/ \E u \in UserIds, id \in OwnItemIds, q \in CartQuantities :
       UpdateCartItem(u, id, q) /\ Direct
  \/ \E u \in UserIds, id \in OwnItemIds : RemoveFromCart(u, id) /\ Direct
  \/ \E u \in UserIds, p \in OwnProducts : AddToWishlist(u, p) /\ Direct
  \/ \E u \in UserIds, id \in OwnItemIds, q \in CartQuantities : MoveToCart(u, id, q) /\ Direct

SpecCart == Init /\ [][NextCart]_vars

\* ---- discount validation specification: a customer asks about a code whose
\* record an admin has given any of these columns
ValidateRecords ==
  { [id |-> 1, code |-> toUpperCase(CodeSave), type |-> tv[1], value |-> tv[2],
     minPurchaseAmount |-> mn, maxDiscountAmount |-> mx,
     startDate |-> win[1], endDate |-> win[2], isActive |-> act,
     usageLimit |-> use[1], usedCount |-> use[2]] :
      tv \in {<<"percentage", 10>>, <<"fixed", 100>>, <<"fixed", 3000>>},
      mn \in {NULL, Some(1000)},
      mx \in {NULL, Some(30)},
      win \in {<<0, MaxTime>>, <<2, MaxTime>>, <<0, 0>>},
      act \in BOOLEAN,
      use \in {<<NULL, 0>>, <<Some(0), 1>>, <<Some(1), 0>>, <<Some(1), 1>>} }

ValidateSubtotals == {0, 500, 1500}

NextValidate ==
  \E found \in {NULL} \cup {Some(d) : d \in ValidateRecords}, s \in ValidateSubtotals :
    ValidateCodeCalc(found, s) /\ Direct

SpecValidate == Init /\ [][NextValidate]_vars

\* ---- product image specification: an admin creates products and edits the
\* images of the products that exist
ImageLists == {<<>>, <<FALSE>>, <<TRUE>>, <<TRUE, TRUE>>}
ImageProducts == 1..(Cardinality(ProductIds) + 1)
ImageIds == 1..3

NextImage ==
  \/ \E imgs \in ImageLists : ProductCreate(imgs) /\ Direct
  \/ \E p \in ImageProducts, imgs \in ImageLists : AddImages(p, imgs) /\ Direct
  \/ \E p \in ImageProducts, i \in ImageIds, b \in {NULL, Some(TRUE), Some(FALSE)} :
       UpdateImage(p, i, b) /\ Direct
  \/ \E p \in ImageProducts, i \in ImageIds : SetPrimaryImage(p, i) /\ Direct

SpecImage == Init /\ [][NextImage]_vars

\* ---- helpful-vote specification: customers review a product and mark and
\* unmark reviews as helpful over two connections, so that two requests of
\* one user can be in flight together
NextHelpful ==
  \/ \E s \in RvSlots, u \in UserIds :
       ReviewCreateRead(s, u, 1, Some(5), Some(OwnComment)) /\ Direct
  \/ \E s \in RvSlots : ReviewCreateWrite(s) /\ Direct
  \/ \E s \in RvSlots, u \in UserIds, id \in OwnReviewIds :
       MarkHelpfulRead(s, u, id) /\ Direct
  \/ \E s \in RvSlots : MarkHelpfulWrite(s) /\ Direct
  \/ \E s \in RvSlots, u \in UserIds, id \in OwnReviewIds :
       RemoveHelpfulRead(s, u, id) /\ Direct
  \/ \E s \in RvSlots : RemoveHelpfulWrite(s) /\ Direct

SpecHelpful == Init /\ [][NextHelpful]_vars

\* ---- review specification: customers create and update reviews, with
\* ratings in and out of range and comments present, blank and missing
ReviewRatings == {NULL, Some(0), Some(5), Some(6)}
ReviewComments == {NULL, Some(<<" ">>), Some(OwnComment)}

NextReview ==
  \/ \E s \in RvSlots, u \in UserIds, p \in {1, 3}, rating \in ReviewRatings,
        comment \in ReviewComments :
       ReviewCreateRead(s, u, p, rating, comment) /\ Direct
  \/ \E s \in RvSlots : ReviewCreateWrite(s) /\ Direct
  \/ \E u \in UserIds, id \in OwnReviewIds, rating \in ReviewRatings,
        comment \in ReviewComments \cup {Some(<<"n", "o">>)} :
       ReviewUpdate(u, id, rating, comment) /\ Direct

SpecReview == Init /\ [][NextReview]_vars

\* ------------------------------------------------------------ properties
ZeroCart == [p \in ProductIds |-> NULL]

UsedCounts == [i \in 1..Len(discounts) |-> discounts[i].usedCount]

RECURSIVE QtyOf(_, _)
\* Total quantity of product p in a sequence of rows.
QtyOf(rows, p) ==
  IF rows = <<>> THEN 0
  ELSE (IF Head(rows).productId = p THEN Head(rows).quantity ELSE 0)
       + QtyOf(Tail(rows), p)

RECURSIVE SumSubtotals(_)
SumSubtotals(rows) ==
  IF rows = <<>> THEN 0 ELSE Head(rows).subtotal + SumSubtotals(Tail(rows))

\* Some effect of a checkout shows up in this step.
CheckoutEffectAppears ==
  \/ Len(orders') > Len(orders)
  \/ Len(orderItems') > Len(orderItems)
  \/ \E p \in ProductIds : stock'[p] < stock[p]
  \/ \E u \in UserIds : cart[u] # ZeroCart /\ cart'[u] = ZeroCart
  \/ \E i \in 1..Len(discounts) : discounts'[i].usedCount > discounts[i].usedCount

\* All effects of one checkout, by user u, show up in this step.
CheckoutAllEffects(u) ==
  /\ req[u].pc = "commit"
  /\ Len(orders') = Len(orders) + 1
  /\ LET o == orders'[Len(orders')]
         added == SubSeq(orderItems', Len(orderItems) + 1, Len(orderItems'))
     IN  /\ o.userId = u
         /\ o.id = Len(orders')
         /\ SubSeq(orders', 1, Len(orders)) = orders
         /\ SubSeq(orderItems', 1, Len(orderItems)) = orderItems
         /\ Len(added) = Len(req[u].cartItems)
         /\ Len(added) >= 1
         /\ \A k \in 1..Len(added) : added[k].orderId = o.id
         /\ \A p \in ProductIds :
              /\ QtyOf(added, p) = QtyOf(req[u].cartItems, p)
              /\ stock'[p] = stock[p] - QtyOf(added, p)
         /\ cart' = [cart EXCEPT ![u] = ZeroCart]
         /\ \A i \in 1..Len(discounts) :
              discounts'[i].usedCount =
                discounts[i].usedCount + (IF o.discountId = Some(i) THEN 1 ELSE 0)

\* A checkout transaction ends without its order.
CheckoutFails(u) ==
  /\ req[u].pc = "commit"
  /\ req'[u].pc = "idle"
  /\ Len(orders') = Len(orders)

\* C1: checkout is all-or-nothing.  Whenever any effect of a checkout (order
\* row, order items, stock decrement, cart clearing, usedCount increment)
\* becomes visible, all of them become visible in the same step; and a
\* checkout whose transaction fails leaves every row as it was.
C1_CheckoutAllOrNothing ==
  [][ /\ (CheckoutEffectAppears => \E u \in UserIds : CheckoutAllEffects(u))
      /\ \A u \in UserIds :
           CheckoutFails(u) =>
             UNCHANGED <<stock, cart, discounts, orders, orderItems>> ]_vars

\* Reached: a checkout with two cart lines and an applied discount has committed.
C1_Witness ==
  /\ hist.phase = "checkedOut"
  /\ Len(hist.cartItems) = 2
  /\ Truthy(orders[hist.orderId].discountId)
  /\ discounts[1].usedCount = 1
  /\ cart[orders[hist.orderId].userId] = ZeroCart

\* C2: checkout prevents overselling: no product's stockQuantity is ever negative.
C2_StockNeverNegative == \A p \in ProductIds : stock[p] >= 0

\* C3: an order created by checkout and cancelled right after it (nothing in
\* between) leaves every stockQuantity and every usedCount as before the checkout.
C3_CancelReversesCheckout ==
  hist.phase = "cancelled" =>
    /\ stock = hist.stock
    /\ UsedCounts = hist.used

\* Reached: an order with an applied discount was cancelled right after checkout.
C3_Witness ==
  /\ hist.phase = "cancelled"
  /\ orders[hist.orderId].status = "cancelled"
  /\ Truthy(orders[hist.orderId].discountId)
  /\ Len(ItemsOf(hist.orderId)) >= 1

ActiveOrdersUsing(i) ==
  {o \in 1..Len(orders) :
     orders[o].discountId = Some(i) /\ orders[o].status # "cancelled"}

\* C4: a discount's usedCount is never negative and equals the number of
\* orders that applied it and are not cancelled.
C4_UsedCountTracksOrders ==
  \A i \in 1..Len(discounts) :
    /\ discounts[i].usedCount >= 0
    /\ discounts[i].usedCount = Cardinality(ActiveOrdersUsing(i))

\* C5: a discount with a usage limit never has usedCount above the limit.
C5_UsageLimitRespected ==
  \A i \in 1..Len(discounts) :
    ~IsNull(discounts[i].usageLimit) =>
      discounts[i].usedCount <= Val(discounts[i].usageLimit)

RECURSIVE SumPriceQty(_)
SumPriceQty(rows) ==
  IF rows = <<>> THEN 0
  ELSE Head(rows).price * Head(rows).quantity + SumPriceQty(Tail(rows))

\* C6: every stored order has tax 0 and total = subtotal + shippingCost -
\* discount, its subtotal is the sum of its order items' subtotals, and the
\* order a checkout has just stored has subtotal equal to the sum of price x
\* quantity over the cart rows that checkout read.
C6_OrderTotals ==
  /\ \A o \in 1..Len(orders) :
       /\ orders[o].tax = 0
       /\ orders[o].total =
            orders[o].subtotal + orders[o].shippingCost - orders[o].discount
       /\ orders[o].subtotal = SumSubtotals(ItemsOf(o))
       /\ \A k \in 1..Len(ItemsOf(o)) :
            ItemsOf(o)[k].subtotal = ItemsOf(o)[k].price * ItemsOf(o)[k].quantity
  /\ hist.phase = "checkedOut" =>
       /\ orders[hist.orderId].subtotal = SumPriceQty(hist.cartItems)
       /\ \A p \in ProductIds :
            QtyOf(ItemsOf(hist.orderId), p) = QtyOf(hist.cartItems, p)

\* Reached: an order with two lines, one of quantity 2, a discount and no shipping fee.
C6_Witness ==
  /\ hist.phase = "checkedOut"
  /\ Len(hist.cartItems) = 2
  /\ \E k \in 1..2 : hist.cartItems[k].quantity = 2
  /\ orders[hist.orderId].discount > 0
  /\ orders[hist.orderId].total < orders[hist.orderId].subtotal

\* C7: the shipping cost is 0 from a subtotal of 2000 on, otherwise 100 for a
\* city inside the valley and 200 for any other city, and checkout's inline
\* computation gives what calculateShippingCost gives, for every city and subtotal.
C7_ShippingCost ==
  calc.op = "shipping" =>
    /\ calc.inline = calc.shared
    /\ calc.inline = (IF calc.subtotal >= 2000 THEN 0
                      ELSE IF calc.inside THEN 100 ELSE 200)

\* Reached: an outside-valley city just under the free-shipping threshold pays 200.
C7_Witness ==
  /\ calc.op = "shipping"
  /\ calc.city = CityPokhara
  /\ calc.subtotal = 1999
  /\ calc.inline = 200
  /\ calc.shared = 200

\* The city, lower-cased and trimmed, contains one of the allow-listed names.
ContainsValleyName(city) ==
  \E k \in 1..Len(KATHMANDU_VALLEY_CITIES) :
    includes(trim(toLowerCase(city)), KATHMANDU_VALLEY_CITIES[k])

\* C8: a city is treated as inside the valley exactly when, ignoring case and
\* surrounding spaces, it contains an allow-listed name; a city that contains
\* none (a fragment, a blank) is charged the outside-valley fee.
C8_ValleyByContainment ==
  calc.op = "shipping" =>
    /\ calc.inside <=> ContainsValleyName(calc.city)
    /\ (calc.subtotal < 2000 /\ ~ContainsValleyName(calc.city)) =>
         (calc.inline = 200 /\ calc.shared = 200)

\* The conditions under which the claim says a code is applied, for the row
\* and the time a checkout read.
ClaimDiscountApplies(r) ==
  /\ ~IsNull(r.discountRecord)
  /\ LET d == Val(r.discountRecord)
     IN  /\ d.isActive
         /\ r.nowRead >= d.startDate
         /\ r.nowRead <= d.endDate
         /\ (~IsNull(d.usageLimit) => d.usedCount < Val(d.usageLimit))
         /\ (~IsNull(d.minPurchaseAmount) => r.subtotal >= Val(d.minPurchaseAmount))

\* C9: checkout applies a code (discountId and discountCode on the order,
\* usedCount + 1) exactly when the code exists, is active, the time is within
\* [startDate, endDate], usedCount is below a set usageLimit and the subtotal
\* reaches a set minPurchaseAmount; otherwise the order is created with
\* discount 0, no discountId, and usedCount unchanged.
C9_DiscountAppliedExactlyWhenValid ==
  /\ \A u \in UserIds :
       req[u].pc \in {"gen", "commit"} =>
         /\ Truthy(req[u].discountId) <=> ClaimDiscountApplies(req[u])
         /\ ~ClaimDiscountApplies(req[u]) =>
              (req[u].discount = 0 /\ IsNull(req[u].discountId))
  /\ hist.phase = "checkedOut" =>
       LET o == orders[hist.orderId]
           r == hist.request
       IN  /\ o.discountId = r.discountId
           /\ o.discountCode = r.discountCodeUsed
           /\ o.discount = r.discount
           /\ \A i \in 1..Len(discounts) :
                discounts[i].usedCount =
                  hist.used[i] + (IF o.discountId = Some(i) THEN 1 ELSE 0)

\* The amount the claim gives for a row and a subtotal.
ClaimDiscountAmount(d, subtotal) ==
  LET base == IF d.type = "percentage" THEN (subtotal * d.value) \div 100
              ELSE d.value
      capped == IF ~IsNull(d.maxDiscountAmount) /\ Val(d.maxDiscountAmount) < base
                THEN Val(d.maxDiscountAmount)
                ELSE base
  IN  IF capped > subtotal THEN subtotal ELSE capped

\* C10: the discount is subtotal x value / 100 (percentage) or value (fixed),
\* reduced to a set, lower maxDiscountAmount, then reduced to the subtotal; so
\* every order has 0 <= discount <= subtotal and total >= shippingCost.
C10_DiscountAmountBounds ==
  /\ \A u \in UserIds :
       (req[u].pc \in {"gen", "commit"} /\ Truthy(req[u].discountId)) =>
         req[u].discount =
           ClaimDiscountAmount(Val(req[u].discountRecord), req[u].subtotal)
  /\ \A o \in 1..Len(orders) :
       /\ 0 <= orders[o].discount
       /\ orders[o].discount <= orders[o].subtotal
       /\ orders[o].total >= orders[o].shippingCost

\* The place of a status on the line pending -> ... -> delivered.
StatusRank(status) ==
  CASE status = "pending" -> 1
    [] status = "confirmed" -> 2
    [] status = "processing" -> 3
    [] status = "shipped" -> 4
    [] status = "delivered" -> 5
    [] OTHER -> 6

\* One allowed move of a status: none, forward along the line, or to cancelled.
LifecycleStep(from, to) ==
  \/ from = to
  \/ from # "cancelled" /\ to = "cancelled"
  \/ from # "cancelled" /\ to # "cancelled" /\ StatusRank(from) < StatusRank(to)

\* C11: an order starts as pending, and no step moves an order's status
\* backwards along pending -> confirmed -> processing -> shipped -> delivered,
\* or takes a cancelled order to another status.
C11_StatusOnlyForward ==
  [][ /\ \A o \in 1..Len(orders) :
           LifecycleStep(orders[o].status, orders'[o].status)
      /\ \A o \in (Len(orders) + 1)..Len(orders') :
           orders'[o].status = "pending" ]_vars

\* C12: an order paid by esewa, khalti or bank_transfer is never confirmed or
\* further along while its paymentStatus is not paid.
C12_OnlinePaidBeforeConfirmed ==
  \A o \in 1..Len(orders) :
    (/\ orders[o].paymentMethod \in ONLINE_PAYMENT_METHODS
     /\ orders[o].status \in {"confirmed", "processing", "shipped", "delivered"})
      => orders[o].paymentStatus = "paid"

\* C13: a checkout with an online payment method and a missing or blank
\* transaction number is answered 400 and creates no order, so every online
\* order carries a non-blank transaction number; every cod order has a null
\* transactionNumber; every new order has paymentStatus pending.
C13_TransactionNumber ==
  /\ [](\A o \in 1..Len(orders) :
          /\ orders[o].paymentMethod = "cod" =>
               IsNull(orders[o].transactionNumber)
          /\ orders[o].paymentMethod \in ONLINE_PAYMENT_METHODS =>
               (/\ ~IsNull(orders[o].transactionNumber)
                /\ trim(Val(orders[o].transactionNumber)) # <<>>))
  /\ [][ /\ (resp'.op = "checkout" /\ resp'.status = 400) => orders' = orders
         /\ \A o \in (Len(orders) + 1)..Len(orders') :
              orders'[o].paymentStatus = "pending" ]_vars

\* Reached: a checkout just refused for its transaction number, after an
\* online order and a cod order were placed.
C13_Witness ==
  /\ resp.op = "checkout"
  /\ resp.status = 400
  /\ resp.message = "transactionNumber"
  /\ \E o \in 1..Len(orders) : orders[o].paymentMethod \in ONLINE_PAYMENT_METHODS

\* C14: no order belongs to a user whose e-mail was unverified when the order
\* was created.
C14_OrdersOnlyForVerifiedUsers ==
  hist.phase = "checkedOut" =>
    users[orders[hist.orderId].userId].isEmailVerified

\* The routes of the admin-only operations.
AdminOnlyRoutes ==
  {"PATCH /orders/admin/:id/status", "PATCH /orders/admin/:id/payment",
   "POST /discounts", "PUT /discounts/:id"}

\* The header is a verified bearer token.
IsVerifiedBearer(header) == header.kind = "bearer" /\ header.valid

\* C16: on an admin-only route the handler runs only for a verified bearer
\* token with role admin; a request with no or an invalid token is answered
\* 401, one with another role 403, and in both cases no row changes.
C16_AdminOnly ==
  [][ arrival'.route \in AdminOnlyRoutes =>
        LET header == arrival'.header
            refused(status) ==
              /\ resp' = [op |-> "middleware", status |-> status]
              /\ UNCHANGED <<stock, cart, discounts, orders, orderItems, adm,
                             users, wishlist, reviews, helpful>>
        IN  /\ ~IsVerifiedBearer(header) => refused(401)
            /\ (IsVerifiedBearer(header) /\ header.role # "admin") => refused(403)
            /\ (IsVerifiedBearer(header) /\ header.role = "admin") =>
                 resp'.op # "middleware" ]_vars

\* Reached: a customer's token was just refused with 403 on a discount write
\* while an order and a discount exist.
C16_Witness ==
  /\ arrival.route = "PUT /discounts/:id"
  /\ arrival.header = Bearer(1, "customer")
  /\ resp = [op |-> "middleware", status |-> 403]
  /\ Len(discounts) > 0

\* ------------------------------------------------------------ C15
\* The answer `r` is to a request that names, by id, a row that exists and
\* belongs to a user other than the caller.
ForeignTarget(r) ==
  /\ r.op \in {"updateCartItem", "removeFromCart", "removeFromWishlist", "moveToCart",
               "reviewUpdate", "reviewDelete", "getOrderByNumber"}
  /\ IF r.op \in {"updateCartItem", "removeFromCart"}
     THEN ~IsNull(cart[r.id[1]][r.id[2]]) /\ r.id[1] # r.user
     ELSE IF r.op \in {"removeFromWishlist", "moveToCart"}
     THEN r.id \in wishlist /\ r.id[1] # r.user
     ELSE IF r.op \in {"reviewUpdate", "reviewDelete"}
     THEN /\ r.id \in 1..Len(reviews)
          /\ ~reviews[r.id].deleted
          /\ reviews[r.id].userId # r.user
     ELSE \E i \in 1..Len(orders) : /\ orders[i].orderNumber = r.id
                                    /\ orders[i].userId # r.user

\* The answer carries no row.
NoData(r) == r.op = "getOrderByNumber" => IsNull(r.data)

\* C15 as stated: a customer request that names a row of another user is
\* answered not found (404), is given no row, and leaves every cart item,
\* wishlist item, review and order as it was.
C15_ForeignRowNotFound ==
  [][ForeignTarget(resp')
       => /\ resp'.status = 404
          /\ NoData(resp')
          /\ UNCHANGED <<cart, wishlist, reviews, orders, orderItems>>]_vars

\* C15: a customer request that names a row of another user is given no row
\* and leaves every cart item, wishlist item, review and order as it was; it
\* is answered not found (404), except that a cart item update whose quantity
\* is missing or below 1 is answered bad request (400) for any id.
C15_OwnershipValidation ==
  [][ForeignTarget(resp')
       => /\ \/ resp'.status = 404
             \/ /\ resp'.op = "updateCartItem"
                /\ resp'.quantity < 1
                /\ resp'.status = 400
          /\ NoData(resp')
          /\ UNCHANGED <<cart, wishlist, reviews, orders, orderItems>>]_vars

\* A request for a row of another user has just been answered not found.
C15_Witness == ForeignTarget(resp) /\ resp.status = 404

\* ------------------------------------------------------------ C17
\* The HTTP status the claim gives each error class.
ClaimErrorStatus(class) ==
  CASE class = "BadRequestError" -> 400
    [] class = "UnauthorizedError" -> 401
    [] class = "ForbiddenError" -> 403
    [] class = "NotFoundError" -> 404
    [] class = "ConflictError" -> 409
    [] class = "ValidationError" -> 422
    [] class = "InternalServerError" -> 500
    [] OTHER -> 500

\* C17: an error raised in a handler is answered by the central error handler
\* with the status of its class (400, 401, 403, 404, 409, 422, 500), 500 when
\* the error carries no statusCode, and a body with status "error" and the
\* error's message.
C17_ErrorEnvelope ==
  calc.op = "error"
    => /\ calc.response.status = ClaimErrorStatus(calc.class)
       /\ IsNull(calc.err.statusCode) => calc.response.status = 500
       /\ calc.response.body.status = "error"
       /\ calc.response.body.message = calc.err.message

\* An error without statusCode has been answered 500 with its own message.
C17_Witness ==
  /\ calc.op = "error"
  /\ calc.class = "Error"
  /\ IsNull(calc.err.statusCode)
  /\ calc.response.status = 500
  /\ calc.response.body.message = "Order not found"

\* ------------------------------------------------------------ C18
\* The label the claim gives a stock quantity and threshold.
ClaimStockStatus(stockQuantity, lowStockThreshold) ==
  IF stockQuantity = 0 THEN "out_of_stock"
  ELSE IF 0 < stockQuantity /\ stockQuantity <= lowStockThreshold THEN "low_stock"
  ELSE "in_stock"

\* C18: the stock status is out_of_stock exactly when stockQuantity = 0,
\* low_stock exactly when 0 < stockQuantity <= lowStockThreshold and in_stock
\* otherwise, and the product, cart and wishlist responses give the same label.
C18_StockStatus ==
  calc.op = "stockStatus"
    => /\ calc.product = ClaimStockStatus(calc.stockQuantity, calc.lowStockThreshold)
       /\ calc.cart = calc.product
       /\ calc.wishlist = calc.product

\* ------------------------------------------------------------ C19
\* The answer `r` is to a review create or update that sent a rating outside 1..5.
RatingOutOfRange(r) ==
  /\ r.op \in {"reviewCreate", "reviewUpdate"}
  /\ ~IsNull(r.rating)
  /\ Val(r.rating) \notin 1..5

\* C19: every review's rating is an integer in 1..5 and a user has at most
\* one review per product; a create or update that sends a rating outside
\* 1..5 is rejected and leaves the reviews unchanged.
C19_ReviewRating ==
  /\ [](\A i \in 1..Len(reviews) :
          ~reviews[i].deleted
            => /\ reviews[i].rating \in 1..5
               /\ \A j \in 1..Len(reviews) :
                    (j # i /\ ~reviews[j].deleted)
                      => ~(/\ reviews[j].productId = reviews[i].productId
                           /\ reviews[j].userId = reviews[i].userId))
  /\ [][RatingOutOfRange(resp')
         => /\ resp'.status \notin {200, 201}
            /\ reviews' = reviews]_vars

\* ------------------------------------------------------------ C20
\* The number of helpful-vote rows of user `u` for review `i`.
VoteRows(i, u) ==
  Len(SelectSeq(helpful, LAMBDA v : v.reviewId = i /\ v.userId = u))

\* C20: in every state reached by markHelpful and removeHelpful calls,
\* concurrent ones included, a review's helpfulCount equals the number of its
\* helpful-vote rows and is >= 0, and each user has at most one vote per review.
C20_HelpfulVotes ==
  \A i \in 1..Len(reviews) :
    /\ reviews[i].helpfulCount = Len(VotesOf(i))
    /\ reviews[i].helpfulCount >= 0
    /\ \A u \in UserIds : VoteRows(i, u) <= 1

\* Two markHelpful requests of one user ran together: the second insert was
\* refused and the review counts the one vote.
C20_Witness ==
  /\ resp = [op |-> "markHelpful", status |-> 500]
  /\ \E i \in 1..Len(reviews) :
       /\ reviews[i].helpfulCount = 1
       /\ \E u \in UserIds : VoteRows(i, u) = 1

\* ------------------------------------------------------------ C21
\* A resetPassword request with `token` is received in this step.
ResetArrives(token) ==
  /\ nReq' = nReq + 1
  /\ \/ resp'.op = "resetPassword" /\ resp'.status = 400 /\ resp'.token = Some(token)
     \/ \E s \in RvSlots : /\ rv[s] = Idle
                            /\ rv'[s].pc = "reset"
                            /\ rv'[s].token = token

\* The request received in this step is refused and writes nothing.
ResetRefused ==
  /\ resp'.op = "resetPassword"
  /\ resp'.status = 400
  /\ rv' = rv
  /\ users' = users

\* `token` is held by a user and the clock is past its expiry.
PastExpiry(token) ==
  \E u \in UserIds : /\ users[u].passwordResetToken = Some(token)
                     /\ ~IsNull(users[u].passwordResetExpiry)
                     /\ now > Val(users[u].passwordResetExpiry)

\* C21: resetPassword with a token past its expiry fails and leaves the
\* password hash unchanged, and once a token has reset a password every later
\* resetPassword call with it is rejected.
C21_ResetTokenSingleUse ==
  [][\A t \in 0..MaxRequests :
       (ResetArrives(t) /\ (PastExpiry(t) \/ t \in usedTokens)) => ResetRefused]_vars

\* A token that has reset a password has been presented again and refused.
C21_Witness ==
  /\ resp.op = "resetPassword"
  /\ resp.status = 400
  /\ ~IsNull(resp.token)
  /\ Val(resp.token) \in usedTokens

\* ------------------------------------------------------------ C22
\* C22: every category has level 1, 2 or 3, and a category with a parent has
\* a parent whose level is exactly one less than its own.
C22_CategoryHierarchy ==
  \A i \in 1..Len(categories) :
    /\ categories[i].level \in {1, 2, 3}
    /\ ~IsNull(categories[i].parentId)
         => /\ Val(categories[i].parentId) \in 1..Len(categories)
            /\ categories[Val(categories[i].parentId)].level = categories[i].level - 1

\* ------------------------------------------------------------ C23
\* C23: after a successful checkout the user's cart is empty, and the cart
\* items and wishlist items of every other user are unchanged.
C23_CheckoutClearsOwnCart ==
  [][(resp'.op = "checkout" /\ resp'.status = 201)
       => \E u \in UserIds :
            /\ req[u].pc = "commit"
            /\ req'[u] = Idle
            /\ cart'[u] = ZeroCart
            /\ \A v \in UserIds \ {u} : cart'[v] = cart[v]
            /\ {w \in wishlist' : w[1] # u} = {w \in wishlist : w[1] # u}]_vars

\* A checkout has succeeded while another user has a cart item and a wishlist item.
C23_Witness ==
  /\ resp = [op |-> "checkout", status |-> 201]
  /\ \E u \in UserIds :
       /\ cart[u] = ZeroCart
       /\ \E v \in UserIds \ {u} :
            /\ cart[v] # ZeroCart
            /\ \E w \in wishlist : w[1] = v

\* ------------------------------------------------------------ C24
\* C24: when the transaction of a checkout inserts the order row, the order
\* number generateOrderNumber returned to it is held by no existing order,
\* whatever the interleaving of concurrent checkouts.
C24_OrderNumberFree ==
  [][\A u \in UserIds :
       (req[u].pc = "commit" /\ req'[u] = Idle)
         => ~OrderNumberTaken(req[u].orderNumber)]_vars

\* ------------------------------------------------------------ C25
\* An updateOrderStatus request for order `o` and status `st` is received in
\* this step.
StatusRequestArrives(o, st) ==
  /\ nReq' = nReq + 1
  /\ \/ /\ resp'.op = "updateOrderStatus"
        /\ resp'.status \in {400, 404}
        /\ resp'.orderId = o
        /\ resp'.to = st
     \/ \E a \in DOMAIN adm : /\ adm[a].pc = "idle"
                              /\ adm'[a].pc = "write"
                              /\ adm'[a].orderId = o
                              /\ adm'[a].status = st

\* C25: cancelling an order that is already cancelled is rejected with a
\* bad-request error and changes nothing: the order, every stockQuantity and
\* every usedCount are as before the call.
C25_CancelTwiceRejected ==
  [][\A o \in 1..Len(orders) :
       (orders[o].status = "cancelled" /\ StatusRequestArrives(o, "cancelled"))
         => /\ resp'.op = "updateOrderStatus"
            /\ resp'.status = 400
            /\ adm' = adm
            /\ UNCHANGED <<orders, orderItems, stock, discounts>>]_vars

\* A cancel of a cancelled order has been answered bad request.
C25_Witness ==
  /\ resp.op = "updateOrderStatus"
  /\ resp.status = 400
  /\ resp.to = "cancelled"
  /\ resp.orderId \in 1..Len(orders)
  /\ orders[resp.orderId].status = "cancelled"

\* ------------------------------------------------------------ C26
RECURSIVE ActiveQtyFrom(_, _)
\* The quantity of product `p` in the order items from row `i` on whose order
\* is not cancelled.
ActiveQtyFrom(p, i) ==
  IF i > Len(orderItems) THEN 0
  ELSE (IF /\ orderItems[i].productId = p
           /\ orders[orderItems[i].orderId].status # "cancelled"
        THEN orderItems[i].quantity ELSE 0)
       + ActiveQtyFrom(p, i + 1)

\* C26: for every product, stockQuantity plus the quantity of the product in
\* the orders that are not cancelled is the same in every state.
C26_StockConserved ==
  \A p \in ProductIds : stock[p] + ActiveQtyFrom(p, 1) = InitStock

\* ------------------------------------------------------------ C27
\* C27: when two requests that cancel the same order run concurrently, the
\* one whose transaction runs after the order is cancelled adds nothing to
\* stock and takes nothing from usedCount.
C27_ConcurrentCancelOnce ==
  [][\A a \in DOMAIN adm :
       (/\ adm[a].pc = "write"
        /\ adm'[a].pc = "idle"
        /\ adm[a].status = "cancelled"
        /\ orders[adm[a].orderId].status = "cancelled")
         => (stock' = stock /\ discounts' = discounts)]_vars

\* ------------------------------------------------------------ C28
\* C28: every cart item has quantity >= 1 (one row per user and product is
\* how `cart` is indexed), and a cart request with a quantity below 1 is
\* rejected and leaves the cart unchanged.
C28_CartQuantities ==
  /\ [](\A u \in UserIds, p \in ProductIds :
          ~IsNull(cart[u][p]) => Val(cart[u][p]) >= 1)
  /\ [][(/\ nReq' = nReq + 1
         /\ resp'.op \in {"addToCart", "updateCartItem", "moveToCart"}
         /\ resp'.quantity < 1)
          => (resp'.status >= 400 /\ cart' = cart)]_vars

PrimaryImages(p) ==
  {i \in 1..Len(images) : images[i].productId = p /\ images[i].isPrimary}

\* C30: a product has at most one image with isPrimary = true, and after a
\* successful setPrimaryImage the named image is the only primary image of
\* its product.
C30_OnePrimaryImage ==
  /\ \A p \in ExistingProducts : Cardinality(PrimaryImages(p)) <= 1
  /\ (resp.op = "setPrimaryImage" /\ resp.status = 200)
       => PrimaryImages(resp.productId) = {resp.imageId}

====
